---- MODULE Spec2Model ----
(***************************************************************************)
(* PruKt: PIN rendezvous relay (server/routes.ts, server/index.ts) and the *)
(* client-side session negotiator (client/src/lib/p2p.ts, signaling.ts).   *)
(*                                                                         *)
(* Spec      the socket relay driven by sockets that send well-formed     *)
(*           joins, signals and leaves, and close.                        *)
(* SpecWire  the same relay with every shape of pin a join can carry.     *)
(* SpecP2P   one P2PService with its WebSocketSignalingService talking to *)
(*           the same relay handlers; the other room members are sockets  *)
(*           that speak the relay's protocol directly.                    *)
(* SpecRetry the client of SpecP2P under a transport that keeps failing.   *)
(* SpecPair  two P2PServices in one room of the relay: the key agreement  *)
(*           (client/src/lib/sessionCrypto.ts).                           *)
(* SpecChat  SpecPair with the data channel and P2PService.send.          *)
(* SpecPoll  two HttpPollingSignalingServices and the function that       *)
(*           stores their signals (netlify/functions/signaling.js).       *)
(* SpecPollFair  SpecPoll with the poll interval running for ever.         *)
(* SpecCrowd SpecPoll with a third client.                                 *)
(* SpecStore the storing function on its own, request by request.          *)
(* SpecAlone the client of SpecP2P with nobody else in its room.           *)
(* SpecOrder the relay with a record of the signals taken in and sent.     *)
(* SpecCodec encryptWithSession and decryptWithSession on strings.         *)
(* SpecConnect  WebSocketService.connect (client/src/lib/websocket.ts).    *)
(* SpecLink  SpecP2P with a peer connection that can also be closed.       *)
(* SpecRejoin  SpecPoll with room for a client to join, leave and rejoin.  *)
(* SpecMessages  encryptAndStoreMessage on localStorage, overlapping calls.*)
(***************************************************************************)
EXTENDS Integers, Sequences, FiniteSets, TLC

\* ---------------------------------------------------------------- bounds
MaxSockets == 3       \* sockets of Spec
MaxWireSockets == 2   \* sockets of SpecWire
MaxPeers == 1         \* SpecP2P: sockets of the client's peers
MaxConnections == 1   \* SpecP2P: WebSockets the client opens, one after the other
MaxTasks == 2         \* handleSignal invocations suspended at the same time
MaxInbox == 2         \* relay messages the client has not dispatched yet
MaxKeys == 2          \* ephemeral key pairs the client generates
MaxCalls == 2         \* SpecP2P: calls of P2PService.join and leave
MaxPeerOps == 2       \* SpecP2P: messages the peers send to the relay
MaxTransportEvents == 2  \* SpecP2P: events of the peer connection and its channel
MaxLen == 2              \* SpecCodec: UTF-16 code units of a message
MaxPeerIds == 2          \* SpecMessages: peerIds messages are stored under
MaxSaves == 3            \* SpecMessages: calls of encryptAndStoreMessage
MaxCodecKeys == 2        \* SpecCodec: session keys
MaxCodecIv == 1          \* SpecCodec: the iv is one byte, 0..MaxCodecIv
MaxConnects == 3         \* SpecConnect: calls of WebSocketService.connect
MaxSignals == 2          \* SpecOrder: signal messages the relay takes in
MaxAloneCalls == 4       \* SpecAlone: calls of P2PService.join and leave
MaxLinkCalls == 1        \* SpecLink: calls of P2PService.join and leave
MaxLinkPeerOps == 2      \* SpecLink: messages the peers send to the relay
MaxLinkTransport == 3    \* SpecLink: events of the peer connection and its channel
MaxRetryCalls == 1       \* SpecRetry: calls of P2PService.join
MaxRetryPeerOps == 4     \* SpecRetry: messages the peers send to the relay
MaxRetryTransport == 12  \* SpecRetry: events of the peer connection
MaxPollCalls == 2        \* SpecPoll: calls of join and leave
MaxPollSends == 2        \* SpecPoll: calls of sendSignal
MaxPolls == 3            \* SpecPoll: runs of pollOnce
MaxRejoinCalls == 4      \* SpecRejoin: calls of join and leave
MaxRejoinSends == 1      \* SpecRejoin: calls of sendSignal
MaxRejoinPolls == 4      \* SpecRejoin: runs of pollOnce
MaxFairSends == 1        \* SpecPollFair: calls of sendSignal
MaxRequests == 5         \* SpecStore: requests the function handles
MaxPollers == 3          \* SpecCrowd: clients of the store-and-poll backend
MaxCrowdCalls == 3       \* SpecCrowd: calls of join and leave
MaxCrowdSends == 1       \* SpecCrowd: calls of sendSignal
MaxCrowdPolls == 3       \* SpecCrowd: runs of pollOnce
MaxPairCalls == 4     \* SpecPair: calls of join and leave, of both clients together
MaxPairKeys == 2      \* SpecPair: ephemeral key pairs each client generates
MaxPairTasks == 2     \* SpecPair: handlers a client has suspended at the same time
MaxPairInbox == 3     \* SpecPair: relay messages a client has not dispatched yet
MaxChatCalls == 3     \* SpecChat: calls of join and leave, of both clients together
MaxChatTransport == 2 \* SpecChat: ondatachannel and onopen events
MaxSends == 2         \* SpecChat: calls of send, of both clients together
MaxIv == 1            \* SpecChat: initialization vectors getRandomValues can draw

Sockets == 1..MaxSockets
WireSockets == 1..MaxWireSockets
PeerSockets == 1..MaxPeers
P2PSockets == 1..(MaxPeers + MaxConnections)

\* ------------------------------------------------------- values and inputs
None == "none"

Digits == {"0", "1", "2", "3", "4", "5", "6", "7", "8", "9"}
Whitespace == {" "}

PinA == <<"1", "1", "1", "1", "1", "1">>
PinB == <<"2", "2", "2", "2", "2", "2">>

\* The `pin` member of a received join message, as JSON.parse yields it:
\* a string, a number (given by its decimal digits) or missing.
RawPins ==
    { [kind |-> "str", chars |-> PinA],
      [kind |-> "str", chars |-> <<" ">> \o PinA \o <<" ">>],
      [kind |-> "str", chars |-> <<"1", "2", "3", "4", "5">>],
      [kind |-> "str", chars |-> <<"1", "2", "a", "4", "5", "6">>],
      [kind |-> "str", chars |-> PinB \o <<"2">>],
      [kind |-> "num", chars |-> PinB],
      [kind |-> "absent", chars |-> <<>>] }

\* The pins the sockets of Spec join with: two rooms.
RoomPins ==
    { [kind |-> "str", chars |-> PinA],
      [kind |-> "num", chars |-> PinB] }

\* The `data` member of a signal message.
Data == {"d1", "d2"}
RoomData == {"d1"}

VARIABLES
    pinRooms,      \* Map<string, Set<WebSocket>>: pin -> members in insertion order
    socketToPin,   \* Map<WebSocket, string>
    readyState,    \* readyState of each server-side WebSocket
    sent,          \* what the relay handler that ran last passed to socket.send, in order
    \* P2PService (client/src/lib/p2p.ts)
    peer,          \* RTCPeerConnection: None or [conn, ice], its two state attributes
    dataChannel,   \* RTCDataChannel: None or its readyState
    isOfferer,
    ephPriv,
    ephPubJwk,
    remotePub,
    sessionKey,
    currentPin,
    reconnectAttempts,
    reconnectTimer,  \* the field: NoTimer or the timeout window.setTimeout made
    \* WebSocketSignalingService (client/src/lib/signaling.ts)
    ws,            \* the field: 0 (null) or the socket
    wsReady,       \* client-side readyState of ws
    wsOnOpen,      \* ws.onopen: None or the pin its sendJoin closure captured
    sigPin,        \* the field pin
    attached,      \* handlers contains P2PService.handleSignal
    \* the event loop of the client
    timerPending,  \* the timeout of reconnectTimer has not fired and was not cleared
    tasks,         \* handleSignal invocations suspended at an await
    inbox,         \* messages the relay sent to ws that onmessage has not seen yet
    nextKey,       \* number of ephemeral key pairs generated so far
    \* history
    hist,
    used,          \* the environment's steps so far, and how many it may take
    \* two P2PServices, each over its WebSocketSignalingService (SpecPair)
    svc,           \* client -> the fields of its P2PService and signaling service
    loop,          \* client -> its event loop: suspended handlers, undispatched messages
    wire,          \* client -> frames on the data channel its onmessage has not seen
    log,           \* client -> history: what it emitted and transmitted
    \* the store-and-poll backend (SpecPoll)
    rooms,         \* netlify/functions/signaling.js: Map pin -> array of signals
    poll,          \* client -> fields of its HttpPollingSignalingService, its pollOnce
    seen,          \* client -> history: events dispatched so far (a set), payloads posted
                   \* (paired: while another client was polling), third: it joined
                   \* while two others were polling
    http,          \* history: the requests the function handled, with its responses
    trail,         \* history: the signals the relay took in (got) and sent on (put)
    crypt,         \* sessionCrypto on its own: a key, a message, what became of it
    conn,          \* WebSocketService: its sockets, the promises of connect, its timers
    localStorage   \* items: the stored list of each peerId; calls: the calls of
                   \* encryptAndStoreMessage, each with the await it has reached

relayVars == <<pinRooms, socketToPin, readyState, sent>>
p2pVars == <<peer, dataChannel, isOfferer, ephPriv, ephPubJwk, remotePub,
             sessionKey, currentPin, reconnectAttempts, reconnectTimer>>
sigVars == <<ws, wsReady, wsOnOpen, sigPin, attached>>
loopVars == <<timerPending, tasks, inbox, nextKey>>
pairVars == <<svc, loop, wire, log>>
pollVars == <<rooms, poll, seen>>
farVars == <<pairVars, pollVars, http, trail, crypt, conn, localStorage>>
clientVars == <<p2pVars, sigVars, loopVars, hist, used, farVars>>
vars == <<relayVars, clientVars>>

\* ------------------------------------------------------- pin normalisation
\* String(msg.pin || ""): a missing pin, the empty string and the number 0
\* are falsy and become "".
ToStr(raw) ==
    IF raw.kind = "absent" THEN <<>>
    ELSE IF raw.kind = "num" /\ raw.chars = <<"0">> THEN <<>>
    ELSE raw.chars

RECURSIVE TrimStart(_)
TrimStart(s) ==
    IF s /= <<>> /\ Head(s) \in Whitespace THEN TrimStart(Tail(s)) ELSE s

RECURSIVE TrimEnd(_)
TrimEnd(s) ==
    IF s /= <<>> /\ s[Len(s)] \in Whitespace
    THEN TrimEnd(SubSeq(s, 1, Len(s) - 1))
    ELSE s

Trim(s) == TrimEnd(TrimStart(s))

NormalizePin(raw) == Trim(ToStr(raw))

\* /^\d{6}$/.test(pin)
PinLength == 6
\* as if the pattern were /^.{6}$/
IsSixDigits_AnyChar(s) == Len(s) = PinLength
IsSixDigits(s) == Len(s) = PinLength /\ \A i \in 1..Len(s) : s[i] \in Digits

\* ------------------------------------------------------- JS Set and Map
SetHas(room, sock) == \E i \in 1..Len(room) : room[i] = sock
SetAdd(room, sock) == IF SetHas(room, sock) THEN room ELSE Append(room, sock)
SetDelete(room, sock) == SelectSeq(room, LAMBDA x : x /= sock)
Members(room) == {room[i] : i \in 1..Len(room)}

MapSet(m, k, v) == [x \in (DOMAIN m) \cup {k} |-> IF x = k THEN v ELSE m[x]]
MapDelete(m, k) == [x \in (DOMAIN m) \ {k} |-> m[x]]
EmptyMap == [x \in {} |-> None]

\* ------------------------------------------------------- messages
Msg(type, pin, occupants, data) ==
    [type |-> type, pin |-> pin, occupants |-> occupants, data |-> data]

\* sendJson: socket.send only when the socket is OPEN, otherwise dropped.
SendJson(socket, payload) ==
    IF readyState[socket] = "OPEN"
    THEN <<[to |-> socket, msg |-> payload]>>
    ELSE <<>>

RECURSIVE SendEach_NoSkip(_, _, _)
\* as if the test peer !== ws were missing
SendEach_NoSkip(room, skip, payload) ==
    IF room = <<>> THEN <<>>
    ELSE SendJson(Head(room), payload) \o SendEach_NoSkip(Tail(room), skip, payload)

RECURSIVE SendEach(_, _, _)
\* for (const peer of room) if (peer !== skip) sendJson(peer, payload)
SendEach(room, skip, payload) ==
    IF room = <<>> THEN <<>>
    ELSE (IF Head(room) = skip THEN <<>> ELSE SendJson(Head(room), payload))
         \o SendEach(Tail(room), skip, payload)

\* ------------------------------------------------------- relay handlers
\* room.size >= 2
RoomCapacity == 2
\* as if the test were room.size > 2
RoomIsFull_OffByOne(room) == Len(room) > RoomCapacity
RoomIsFull(room) == Len(room) >= RoomCapacity

\* What a handler leaves behind: the two maps and what it passed to send.
Result(map, pins, out) == [rooms |-> map, pins |-> pins, out |-> out]

\* msg.type === "join"
JoinResult(sock, raw) ==
    LET pin == NormalizePin(raw)
        room == IF pin \in DOMAIN pinRooms THEN pinRooms[pin] ELSE <<>>
        room2 == SetAdd(room, sock)
    IN  IF ~IsSixDigits(pin)
        THEN Result(pinRooms, socketToPin,
                    SendJson(sock, Msg("error", None, 0, None)))
        ELSE IF RoomIsFull(room)
        THEN Result(pinRooms, socketToPin,
                    SendJson(sock, Msg("roomFull", pin, 0, None)))
        ELSE Result(MapSet(pinRooms, pin, room2),
                    MapSet(socketToPin, sock, pin),
                    SendJson(sock, Msg("joined", pin, Len(room2), None))
                    \o SendEach(room2, sock, Msg("peerJoined", None, 0, None))
                    \o (IF Len(room2) = 2
                        THEN SendEach(room2, 0, Msg("ready", None, 0, None))
                        ELSE <<>>))

\* as if a sender that socketToPin does not know were relayed to a room
SignalResult_Unguarded(sock, data) ==
    IF sock \notin DOMAIN socketToPin
    THEN Result(pinRooms, socketToPin,
                IF pinRooms = EmptyMap THEN <<>>
                ELSE SendEach(pinRooms[CHOOSE pin \in DOMAIN pinRooms : TRUE],
                              sock, Msg("signal", None, 0, data)))
    ELSE IF socketToPin[sock] \notin DOMAIN pinRooms
    THEN Result(pinRooms, socketToPin, <<>>)
    ELSE Result(pinRooms, socketToPin,
                SendEach(pinRooms[socketToPin[sock]], sock,
                         Msg("signal", None, 0, data)))

\* as if the payload decided who is sent the signal
SignalResult_ByPayload(sock, data) ==
    IF sock \notin DOMAIN socketToPin
    THEN Result(pinRooms, socketToPin, <<>>)
    ELSE IF socketToPin[sock] \notin DOMAIN pinRooms
    THEN Result(pinRooms, socketToPin, <<>>)
    ELSE Result(pinRooms, socketToPin,
                IF data = "d2" THEN <<>>
                ELSE SendEach(pinRooms[socketToPin[sock]], sock,
                              Msg("signal", None, 0, data)))

\* msg.type === "signal"
SignalResult(sock, data) ==
    IF sock \notin DOMAIN socketToPin
    THEN Result(pinRooms, socketToPin, <<>>)
    ELSE IF socketToPin[sock] \notin DOMAIN pinRooms
    THEN Result(pinRooms, socketToPin, <<>>)
    ELSE Result(pinRooms, socketToPin,
                SendEach(pinRooms[socketToPin[sock]], sock,
                         Msg("signal", None, 0, data)))

\* as if the room were kept when its last member goes
RemoveResult_KeepsRoom(sock) ==
    IF sock \notin DOMAIN socketToPin
    THEN Result(pinRooms, socketToPin, <<>>)
    ELSE IF socketToPin[sock] \notin DOMAIN pinRooms
    THEN Result(pinRooms, socketToPin, <<>>)
    ELSE LET pin == socketToPin[sock]
             room2 == SetDelete(pinRooms[pin], sock)
         IN  Result(MapSet(pinRooms, pin, room2),
                    MapDelete(socketToPin, sock),
                    SendEach(room2, 0, Msg("peerLeft", None, 0, None)))

\* msg.type === "leave", and sock.on("close"): the two bodies are the same
RemoveResult(sock) ==
    IF sock \notin DOMAIN socketToPin
    THEN Result(pinRooms, socketToPin, <<>>)
    ELSE IF socketToPin[sock] \notin DOMAIN pinRooms
    THEN Result(pinRooms, socketToPin, <<>>)
    ELSE LET pin == socketToPin[sock]
             room2 == SetDelete(pinRooms[pin], sock)
         IN  Result(IF Len(room2) = 0
                    THEN MapDelete(pinRooms, pin)
                    ELSE MapSet(pinRooms, pin, room2),
                    MapDelete(socketToPin, sock),
                    SendEach(room2, 0, Msg("peerLeft", None, 0, None)))

\* the handler has run: `sent` is what it passed to send
Handled(r) ==
    /\ pinRooms' = r.rooms
    /\ socketToPin' = r.pins
    /\ sent' = r.out

JoinEffect(sock, raw) == Handled(JoinResult(sock, raw))
SignalEffect(sock, data) == Handled(SignalResult(sock, data))
RemoveEffect(sock) == Handled(RemoveResult(sock))

\* ------------------------------------------------------- the environment
\* the environment's steps are counted against the bounds of the
\* specification that runs
Allowance == [calls |-> MaxCalls, peerOps |-> MaxPeerOps,
              transport |-> MaxTransportEvents]
Budget(limit) == [spent |-> [k \in DOMAIN limit |-> 0], limit |-> limit]
Spend(kind) ==
    IF kind \in DOMAIN used.limit
    THEN /\ used.spent[kind] < used.limit[kind]
         /\ used' = [used EXCEPT !.spent[kind] = @ + 1]
    ELSE UNCHANGED used

\* ------------------------------------------------------- two clients, initially
Clients == {1, 2}
Other(c) == 3 - c
NoText == 0
NoFingerprint == <<>>
NoCipher == [key |-> {}, iv |-> 0, text |-> NoText]

\* the fields of a P2PService and of its WebSocketSignalingService; a
\* client's WebSocket is the socket with its number
NoService ==
    [peer |-> [conn |-> None, ice |-> None], dataChannel |-> None,
     isOfferer |-> FALSE, ephPriv |-> 0, ephPubJwk |-> <<>>, remotePub |-> 0,
     sessionKey |-> {}, attached |-> FALSE, wsReady |-> None, wsOnOpen |-> <<>>]
NoLoop == [tasks |-> <<>>, inbox |-> <<>>, nextKey |-> 0]
\* fp: the fingerprint emitted last since cleanup; calls: what send was
\* called with; frames: what it put on the channel; handled: the frames
\* onmessage has seen; events: what onmessage emitted; posted: the texts
\* send accepted on a channel that has been up since; uncaught: a callback
\* has thrown with nothing to catch it
NoLog == [fp |-> NoFingerprint, calls |-> {}, frames |-> {}, handled |-> 0,
          events |-> <<>>, posted |-> {}, uncaught |-> FALSE]

PairInit ==
    /\ svc = [c \in Clients |-> NoService]
    /\ loop = [c \in Clients |-> NoLoop]
    /\ wire = [c \in Clients |-> <<>>]
    /\ log = [c \in Clients |-> NoLog]

\* ------------------------------------------------------- store and poll, initially
\* a pollOnce that is not running
Idle == [at |-> "idle", signals |-> <<>>]
\* polling: pollTimer is not null; intervals: the intervals setInterval
\* started that no clearInterval has stopped
NoPoller == [pin |-> <<>>, joinedEmitted |-> FALSE, readyEmitted |-> FALSE,
             seenPeers |-> {}, polling |-> FALSE, intervals |-> 0, once |-> Idle]
\* open: peerJoined was dispatched and no peerLeft since; readies: the
\* ready events dispatched since that peerJoined
NoPairing == [open |-> FALSE, readies |-> 0]
PollStart(ids) ==
    /\ rooms = [x \in {} |-> <<>>]
    /\ poll = [c \in ids |-> NoPoller]
    /\ seen = [c \in ids |-> [events |-> {}, posted |-> {}, paired |-> {},
                               pairing |-> NoPairing,
                               third |-> FALSE]]
PollInit == PollStart(Clients)

\* localStorage with no list stored under any peerId, and no call made
PeerIds == 1..MaxPeerIds
NoItems == [items |-> [p \in PeerIds |-> <<>>], calls |-> <<>>]

\* a WebSocketService on which connect has not been called.  delays: the
\* delays attemptReconnect has used since a socket last opened; off:
\* disconnect was called and the application has not called connect since
NoConn == [socks |-> <<>>, ws |-> 0, promises |-> <<>>, timers |-> <<>>,
           failed |-> [i \in 1..MaxConnects |-> FALSE], asked |-> {},
           reconnectAttempts |-> 0, retries |-> 0, called |-> FALSE,
           delays |-> <<>>, off |-> FALSE]

\* no signal has reached the relay, and no leave from outside the rooms
NoTrail == [got |-> <<>>, put |-> <<>>, idle |-> FALSE]

\* ------------------------------------------------------- client, initially
NoHist == [left |-> FALSE, orphan |-> FALSE, fp |-> FALSE,
           retired |-> {}, stale |-> FALSE, gaveUp |-> FALSE,
           joined |-> FALSE, cleaned |-> FALSE]

\* null, for each kind of value a field holds
NoPeer == [conn |-> None, ice |-> None]
NoKey == 0
NoJwk == <<>>
NoSessionKey == {}
NoPin == <<>>
\* reconnectTimer: a timeout is known by the delay it was set with
NoTimer == [delay |-> 0]

ClientBase ==
    /\ peer = NoPeer
    /\ dataChannel = None
    /\ isOfferer = FALSE
    /\ ephPriv = NoKey
    /\ ephPubJwk = NoJwk
    /\ remotePub = NoKey
    /\ sessionKey = NoSessionKey
    /\ currentPin = NoPin
    /\ reconnectAttempts = 0
    /\ reconnectTimer = NoTimer
    /\ ws = 0
    /\ wsReady = None
    /\ wsOnOpen = NoPin
    /\ sigPin = NoPin
    /\ attached = FALSE
    /\ timerPending = FALSE
    /\ tasks = {}
    /\ inbox = <<>>
    /\ nextKey = 0
    /\ hist = NoHist
    /\ PairInit
    /\ http = <<>>
    /\ trail = NoTrail
    /\ conn = NoConn
    /\ localStorage = NoItems

\* nothing has been encrypted
NoSealed == [iv |-> <<>>, ciphertext |-> <<>>]
NoRun == [at |-> <<>>, ok |-> FALSE, text |-> <<>>]
Fresh(key, m) == [key |-> key, m |-> m, sealed |-> NoSealed,
                  same |-> NoRun, other |-> NoRun, bent |-> NoRun]

ClientCore ==
    /\ ClientBase
    /\ crypt = Fresh(0, <<>>)

ClientFields ==
    /\ ClientCore
    /\ PollInit

ClientInit ==
    /\ ClientFields
    /\ used = Budget(Allowance)

\* ------------------------------------------------------- Spec: the relay
\* The relay with MaxSockets connections accepted; p2pWss.on("connection")
\* only registers the two listeners.
Init ==
    /\ pinRooms = EmptyMap
    /\ socketToPin = EmptyMap
    /\ readyState = [s \in Sockets |-> "OPEN"]
    /\ sent = <<>>
    /\ ClientInit

\* A message event is emitted only for a socket that is OPEN.
Join(s, raw) ==
    /\ readyState[s] = "OPEN"
    /\ JoinEffect(s, raw)
    /\ UNCHANGED readyState
    /\ UNCHANGED clientVars

Signal(s, data) ==
    /\ readyState[s] = "OPEN"
    /\ SignalEffect(s, data)
    /\ UNCHANGED readyState
    /\ UNCHANGED clientVars

Leave(s) ==
    /\ readyState[s] = "OPEN"
    /\ RemoveEffect(s)
    /\ UNCHANGED readyState
    /\ UNCHANGED clientVars

\* The transport goes down: readyState leaves OPEN before the close event
\* is emitted, so handlers of other sockets can run in between.
Closing(s) ==
    /\ readyState[s] = "OPEN"
    /\ readyState' = [readyState EXCEPT ![s] = "CLOSING"]
    /\ sent' = <<>>
    /\ UNCHANGED <<pinRooms, socketToPin>>
    /\ UNCHANGED clientVars

\* ws.on("close")
Close(s) ==
    /\ readyState[s] = "CLOSING"
    /\ readyState' = [readyState EXCEPT ![s] = "CLOSED"]
    /\ RemoveEffect(s)
    /\ UNCHANGED clientVars

Next ==
    \/ \E s \in Sockets, raw \in RoomPins : Join(s, raw)
    \/ \E s \in Sockets, d \in RoomData : Signal(s, d)
    \/ \E s \in Sockets : Leave(s)
    \/ \E s \in Sockets : Closing(s)
    \/ \E s \in Sockets : Close(s)

Spec == Init /\ [][Next]_vars

\* ------------------------------------------------------- SpecWire: the messages
\* The same relay; fewer sockets, which send every kind of pin member and
\* different signal payloads.
NextWire ==
    \/ \E s \in WireSockets, raw \in RawPins : Join(s, raw)
    \/ \E s \in WireSockets, d \in Data : Signal(s, d)
    \/ \E s \in WireSockets : Leave(s)
    \/ \E s \in WireSockets : Closing(s)
    \/ \E s \in WireSockets : Close(s)

SpecWire == Init /\ [][NextWire]_vars

\* ------------------------------------------------------- SpecOrder: the signals
\* The relay of Spec with the sockets of SpecWire, and a record of the signals in the order their
\* handlers ran and of the messages socket.send was given, in order.
\* the open sockets that share a room of pinRooms with sock
Mates(sock) ==
    {b \in Sockets \ {sock} :
        /\ readyState[b] = "OPEN"
        /\ \E pin \in DOMAIN pinRooms :
              SetHas(pinRooms[pin], sock) /\ SetHas(pinRooms[pin], b)}

\* socketToPin.get(sock) gives nothing, or no room holds sock
Outside(sock) ==
    \/ sock \notin DOMAIN socketToPin
    \/ \A pin \in DOMAIN pinRooms : ~SetHas(pinRooms[pin], sock)

OrderSignal(s, data) ==
    LET n == Len(trail.got) + 1
        out == SignalResult(s, data).out
    IN  /\ readyState[s] = "OPEN"
        /\ n <= MaxSignals
        /\ SignalEffect(s, data)
        /\ trail' = [got |-> Append(trail.got, [from |-> s, data |-> data,
                                                mates |-> Mates(s),
                                                member |-> ~Outside(s)]),
                     put |-> trail.put \o
                             [i \in 1..Len(out) |->
                                [to |-> out[i].to, n |-> n,
                                 data |-> out[i].msg.data]],
                     idle |-> trail.idle]
        /\ UNCHANGED readyState
        /\ UNCHANGED <<p2pVars, sigVars, loopVars, hist, used, pairVars,
                       pollVars, http, crypt, conn, localStorage>>

\* a leave is handled; idle: one came from outside the rooms
OrderLeave(s) ==
    /\ readyState[s] = "OPEN"
    /\ RemoveEffect(s)
    /\ trail' = [trail EXCEPT !.idle = @ \/ Outside(s)]
    /\ UNCHANGED readyState
    /\ UNCHANGED <<p2pVars, sigVars, loopVars, hist, used, pairVars,
                   pollVars, http, crypt, conn, localStorage>>

NextOrder ==
    \/ \E s \in WireSockets, raw \in RoomPins : Join(s, raw)
    \/ \E s \in WireSockets, d \in Data : OrderSignal(s, d)
    \/ \E s \in WireSockets : OrderLeave(s)
    \/ \E s \in WireSockets : Closing(s)
    \/ \E s \in WireSockets : Close(s)

SpecOrder == Init /\ [][NextOrder]_vars

\* ======================================================= the client
\* ------------------------------------------------------- sessionCrypto
\* Key pair k of the client is the number k; a raw peer announces PeerKey.
PeerKey == MaxKeys + 1
Jwk(k) == <<"jwk", k>>
ImportRemotePublicKey(jwk) == jwk[2]
\* ECDH: the secret of (private a, public b) is that of (private b, public a)
DeriveSessionKey(priv, pub) == {priv, pub}

\* evt.data of a signal: which of sdp, candidate, key is present
Payload(sdp, candidate, key) == [sdp |-> sdp, candidate |-> candidate, key |-> key]
PeerPayloads ==
    { Payload("offer", None, NoJwk),
      Payload(None, "candidate", NoJwk),
      Payload(None, None, Jwk(PeerKey)) }

ClientPins == {PinA, PinB}
StrPin(pin) == [kind |-> "str", chars |-> pin]

\* new RTCPeerConnection(...)
NewPeer == [conn |-> "new", ice |-> "new"]
\* the state changes an RTCPeerConnection reports
ConnNext(st) ==
    CASE st = "new" -> {"connecting", "closed"}
      [] st = "connecting" -> {"connected", "failed", "closed"}
      [] st = "connected" -> {"disconnected", "closed"}
      [] st = "disconnected" -> {"connected", "failed", "closed"}
      [] st = "failed" -> {"closed"}
      [] OTHER -> {}
IceNext(st) ==
    CASE st = "new" -> {"checking", "closed"}
      [] st = "checking" -> {"connected", "failed", "closed"}
      [] st = "connected" -> {"disconnected", "closed"}
      [] st = "disconnected" -> {"connected", "failed", "closed"}
      [] st = "failed" -> {"closed"}
      [] OTHER -> {}

\* a suspended handleSignal: its branch, the await it is at, and the values
\* the pending call was given
Task(fn, at, sdp, jwk, priv, pub) ==
    [fn |-> fn, at |-> at, sdp |-> sdp, jwk |-> jwk, priv |-> priv, pub |-> pub]
CanSuspend(t) == t \notin tasks /\ Cardinality(tasks) < MaxTasks

\* ------------------------------------------------------- client -> relay
ClientMsg(type, pin, data) == [type |-> type, pin |-> pin, data |-> data]

RelayReceives(sock, m) ==
    CASE m.type = "join" -> JoinResult(sock, m.pin)
      [] m.type = "signal" -> SignalResult(sock, m.data)
      [] m.type = "leave" -> RemoveResult(sock)

RelayIdle == /\ UNCHANGED <<pinRooms, socketToPin>>
             /\ sent' = <<>>

\* what of a handler's output the client's socket receives
Received(out, sock) ==
    LET mine == SelectSeq(out, LAMBDA p : p.to = sock)
    IN  [i \in 1..Len(mine) |-> mine[i].msg]

\* The handler has run in the presence of the client: what it sent to the
\* client's socket is appended to box, the rest goes to the peers.
Relayed(r, box) ==
    /\ pinRooms' = r.rooms
    /\ socketToPin' = r.pins
    /\ sent' = <<>>
    /\ inbox' = box \o Received(r.out, ws)
    /\ Len(inbox') <= MaxInbox

\* ws.send on a socket open at the client, the rest of the inbox being box
Transmit(m, box) ==
    IF readyState[ws] = "OPEN"
    THEN Relayed(RelayReceives(ws, m), box)
    ELSE RelayIdle /\ inbox' = box

\* WebSocketSignalingService.send
SigSend(m, box) ==
    IF ws /= 0 /\ wsReady = "OPEN"
    THEN Transmit(m, box)
    ELSE RelayIdle /\ inbox' = box

NoSend(box) == RelayIdle /\ inbox' = box

\* WebSocketSignalingService.connect and join
FreeSockets == {s \in P2PSockets : readyState[s] = "NEW"}
NextSocket == CHOOSE s \in FreeSockets : \A o \in FreeSockets : s <= o

SigJoin(pin, box) ==
    /\ sigPin' = pin
    /\ IF ws /= 0
       THEN /\ UNCHANGED <<ws, wsReady>>
            /\ IF wsReady = "OPEN"
               THEN /\ SigSend(ClientMsg("join", StrPin(pin), None), box)
                    /\ UNCHANGED wsOnOpen
               ELSE /\ wsOnOpen' = pin
                    /\ NoSend(box)
       ELSE /\ FreeSockets /= {}
            /\ ws' = NextSocket
            /\ wsReady' = "CONNECTING"
            /\ wsOnOpen' = pin
            /\ NoSend(box)

\* ------------------------------------------------------- P2PService, parts
Cleanup ==
    /\ dataChannel' = None
    /\ peer' = NoPeer
    /\ ephPriv' = NoKey
    /\ ephPubJwk' = NoJwk
    /\ remotePub' = NoKey
    /\ sessionKey' = NoSessionKey

MaxWsReconnects == 5
ReconnectDelay == 1000
MaxReconnectAttempts == 5

MaxDelay == 30000
BaseDelay == 500
RECURSIVE Pow(_, _)
Pow(b, n) == IF n = 0 THEN 1 ELSE b * Pow(b, n - 1)
Min(a, b) == IF a <= b THEN a ELSE b
\* as if the counter were incremented before the delay is computed
Delay_AfterIncrement(attempts) == Min(MaxDelay, BaseDelay * Pow(2, attempts + 1))
\* Math.min(30000, 500 * Math.pow(2, this.reconnectAttempts))
Delay(attempts) == Min(MaxDelay, BaseDelay * Pow(2, attempts))

\* attemptReconnect emits the error 'Reconnect attempts exceeded'
Exceeded == currentPin /= NoPin /\ reconnectAttempts >= MaxReconnectAttempts

\* the states at which both state change handlers emit disconnected
EmitsDisconnected(st) == st \in {"disconnected", "failed", "closed"}

\* as if the state closed asked for a reconnection too
Transient_AlsoClosed(st) == EmitsDisconnected(st)

\* the states at which both state change handlers call attemptReconnect
Transient(st) == st \in {"disconnected", "failed"}

AttemptReconnect ==
    IF currentPin = NoPin \/ Exceeded
    THEN UNCHANGED <<reconnectAttempts, reconnectTimer, timerPending>>
    ELSE /\ reconnectAttempts' = reconnectAttempts + 1
         /\ reconnectTimer' = [delay |-> Delay(reconnectAttempts)]
         /\ timerPending' = TRUE

ClearReconnectTimer ==
    /\ reconnectTimer' = NoTimer
    /\ timerPending' = IF reconnectTimer /= NoTimer THEN FALSE ELSE timerPending

\* the negotiation that used the present ephemeral key has ended
Retire(h) == [h EXCEPT !.retired = IF ephPriv = NoKey THEN @ ELSE @ \cup {ephPriv}]

\* the handler that ran as t goes on as next, or ends
Continue(rest, goesOn, next) ==
    IF goesOn
    THEN next \notin rest /\ tasks' = rest \cup {next}
    ELSE tasks' = rest

keyVars == <<ephPriv, ephPubJwk, remotePub, sessionKey>>
timerVars == <<reconnectAttempts, reconnectTimer, timerPending>>

\* ------------------------------------------------------- handleSignal
SignalMsg(data) == ClientMsg("signal", None, data)

\* from signalingService.sendSignal({ key }) to the end of the ready branch
ShareKeyAndOffer(box, jwk, pc, rest) ==
    /\ SigSend(SignalMsg(Payload(None, None, jwk)), box)
    /\ IF isOfferer'
       THEN /\ Task("ready", "createOffer", None, NoJwk, NoKey, NoKey) \notin rest
            /\ peer' = IF pc = NoPeer THEN NewPeer ELSE pc
            /\ dataChannel' = "connecting"
            /\ tasks' = rest \cup {Task("ready", "createOffer", None, NoJwk, NoKey, NoKey)}
       ELSE /\ peer' = pc
            /\ UNCHANGED dataChannel
            /\ tasks' = rest

OnReady(box) ==
    LET pc == IF peer = NoPeer THEN NewPeer ELSE peer
    IN  /\ isOfferer' = IF ~isOfferer THEN dataChannel = None ELSE isOfferer
        /\ UNCHANGED <<keyVars, nextKey>>
        /\ IF ephPriv = NoKey
           THEN /\ CanSuspend(Task("ready", "generateKey", None, NoJwk, NoKey, NoKey))
                /\ tasks' = tasks \cup {Task("ready", "generateKey", None, NoJwk, NoKey, NoKey)}
                /\ peer' = pc
                /\ UNCHANGED <<dataChannel, hist>>
                /\ NoSend(box)
           ELSE /\ Cardinality(tasks) < MaxTasks
                /\ ShareKeyAndOffer(box, ephPubJwk, pc, tasks)
                /\ hist' = [hist EXCEPT !.stale = @ \/ ephPriv \in hist.retired]

OnSdp(box, type) ==
    /\ CanSuspend(Task("sdp", "setRemoteDescription", type, NoJwk, NoKey, NoKey))
    /\ tasks' = tasks \cup {Task("sdp", "setRemoteDescription", type, NoJwk, NoKey, NoKey)}
    /\ peer' = IF peer = NoPeer THEN NewPeer ELSE peer
    /\ UNCHANGED <<dataChannel, isOfferer, keyVars, nextKey, hist>>
    /\ NoSend(box)

OnCandidate(box) ==
    /\ CanSuspend(Task("candidate", "addIceCandidate", None, NoJwk, NoKey, NoKey))
    /\ tasks' = tasks \cup {Task("candidate", "addIceCandidate", None, NoJwk, NoKey, NoKey)}
    /\ peer' = IF peer = NoPeer THEN NewPeer ELSE peer
    /\ UNCHANGED <<dataChannel, isOfferer, keyVars, nextKey, hist>>
    /\ NoSend(box)

OnKey(box, jwk) ==
    /\ CanSuspend(Task("key", "importKey", None, jwk, NoKey, NoKey))
    /\ tasks' = tasks \cup {Task("key", "importKey", None, jwk, NoKey, NoKey)}
    /\ hist' = [hist EXCEPT !.cleaned = FALSE]
    /\ UNCHANGED <<peer, dataChannel, isOfferer, keyVars, nextKey>>
    /\ NoSend(box)

OnPeerLeft(box) ==
    /\ Cleanup
    /\ hist' = [Retire(hist) EXCEPT !.fp = FALSE, !.cleaned = TRUE]
    /\ UNCHANGED <<isOfferer, tasks, nextKey>>
    /\ NoSend(box)

Ignore(box) ==
    /\ UNCHANGED <<peer, dataChannel, isOfferer, keyVars, tasks, nextKey, hist>>
    /\ NoSend(box)

\* handleSignal has no branch for evt (joined, roomFull, error, peerJoined)
Unhandled(box, evt) ==
    /\ UNCHANGED <<peer, dataChannel, isOfferer, keyVars, tasks, nextKey>>
    /\ hist' = [hist EXCEPT !.joined = @ \/ evt.type = "joined"]
    /\ NoSend(box)

\* ws.onmessage, dispatch, and handleSignal up to its first await
WsMessage ==
    /\ inbox /= <<>>
    /\ LET evt == Head(inbox)
           box == Tail(inbox)
       IN  IF ~attached THEN Ignore(box)
           ELSE IF evt.type = "ready" THEN OnReady(box)
           ELSE IF evt.type = "signal" /\ evt.data.sdp /= None
                THEN OnSdp(box, evt.data.sdp)
           ELSE IF evt.type = "signal" /\ evt.data.candidate /= None
                THEN OnCandidate(box)
           ELSE IF evt.type = "signal" /\ evt.data.key /= NoJwk
                THEN OnKey(box, evt.data.key)
           ELSE IF evt.type = "peerLeft" THEN OnPeerLeft(box)
           ELSE Unhandled(box, evt)
    /\ UNCHANGED <<readyState, currentPin, timerVars, sigVars>>
    /\ UNCHANGED <<used, farVars>>

\* the ready branch resumes after an await
ReadyResumeOf(t) ==
    /\ LET rest == tasks \ {t}
       IN  CASE t.at = "generateKey" ->
                  /\ nextKey < MaxKeys
                  /\ nextKey' = nextKey + 1
                  /\ ephPriv' = nextKey'
                  /\ ephPubJwk' = Jwk(nextKey')
                  /\ UNCHANGED <<remotePub, sessionKey, isOfferer>>
                  /\ ShareKeyAndOffer(inbox, ephPubJwk', peer, rest)
             [] t.at = "createOffer" ->
                  /\ Continue(rest, peer /= NoPeer,
                              Task("ready", "setLocalDescription", None, NoJwk, NoKey, NoKey))
                  /\ UNCHANGED <<peer, dataChannel, isOfferer, keyVars, nextKey>>
                  /\ NoSend(inbox)
             [] t.at = "setLocalDescription" ->
                  /\ tasks' = rest
                  /\ UNCHANGED <<peer, dataChannel, isOfferer, keyVars, nextKey>>
                  /\ IF peer = NoPeer THEN NoSend(inbox)
                     ELSE SigSend(SignalMsg(Payload("offer", None, NoJwk)), inbox)
    /\ UNCHANGED <<readyState, currentPin, timerVars, sigVars, hist>>
    /\ UNCHANGED <<used, farVars>>

ReadyResume == \E t \in tasks : t.fn = "ready" /\ ReadyResumeOf(t)

\* the sdp branch resumes after an await
SdpResumeOf(t) ==
    /\ LET rest == tasks \ {t}
       IN  CASE t.at = "setRemoteDescription" ->
                  /\ Continue(rest, t.sdp = "offer" /\ peer /= NoPeer,
                              Task("sdp", "createAnswer", None, NoJwk, NoKey, NoKey))
                  /\ NoSend(inbox)
             [] t.at = "createAnswer" ->
                  /\ Continue(rest, peer /= NoPeer,
                              Task("sdp", "setLocalDescription", None, NoJwk, NoKey, NoKey))
                  /\ NoSend(inbox)
             [] t.at = "setLocalDescription" ->
                  /\ tasks' = rest
                  /\ IF peer = NoPeer THEN NoSend(inbox)
                     ELSE SigSend(SignalMsg(Payload("answer", None, NoJwk)), inbox)
    /\ UNCHANGED <<readyState, p2pVars, timerPending, nextKey, sigVars, hist>>
    /\ UNCHANGED <<used, farVars>>

SdpResume == \E t \in tasks : t.fn = "sdp" /\ SdpResumeOf(t)

\* the candidate branch resumes after addIceCandidate settles
CandidateResumeOf(t) ==
    /\ tasks' = tasks \ {t}
    /\ NoSend(inbox)
    /\ UNCHANGED <<readyState, p2pVars, timerPending, nextKey, sigVars, hist>>
    /\ UNCHANGED <<used, farVars>>

CandidateResume == \E t \in tasks : t.fn = "candidate" /\ CandidateResumeOf(t)

\* the key branch resumes after an await
KeyResumeOf(t) ==
    /\ LET rest == tasks \ {t}
       IN  CASE t.at = "importKey" ->
                  /\ remotePub' = ImportRemotePublicKey(t.jwk)
                  /\ Continue(rest, ephPriv /= NoKey,
                              Task("key", "deriveKey", None, NoJwk, ephPriv, remotePub'))
                  /\ UNCHANGED <<sessionKey, hist>>
             [] t.at = "deriveKey" ->
                  /\ sessionKey' = DeriveSessionKey(t.priv, t.pub)
                  /\ Continue(rest, ephPriv /= NoKey /\ remotePub /= NoKey,
                              Task("key", "computeFingerprint", None, NoJwk, ephPriv, remotePub))
                  /\ UNCHANGED <<remotePub, hist>>
             [] t.at = "computeFingerprint" ->
                  /\ tasks' = rest
                  /\ hist' = [hist EXCEPT !.fp = TRUE]
                  /\ UNCHANGED <<remotePub, sessionKey>>
    /\ NoSend(inbox)
    /\ UNCHANGED <<readyState, peer, dataChannel, isOfferer, ephPriv, ephPubJwk,
                   currentPin, timerVars, nextKey, sigVars>>
    /\ UNCHANGED <<used, farVars>>

KeyResume == \E t \in tasks : t.fn = "key" /\ KeyResumeOf(t)

\* ------------------------------------------------------- RTCPeerConnection
\* peer.onconnectionstatechange
ConnectionStateChange(st) ==
    /\ peer /= NoPeer
    /\ st \in ConnNext(peer.conn)
    /\ peer' = [peer EXCEPT !.conn = st]
    /\ CASE st = "connected" ->
              /\ ClearReconnectTimer
              /\ reconnectAttempts' = 0
              /\ UNCHANGED hist
         [] EmitsDisconnected(st) ->
              IF Transient(st)
              THEN /\ AttemptReconnect
                   /\ hist' = [Retire(hist) EXCEPT !.gaveUp = @ \/ Exceeded]
              ELSE UNCHANGED <<timerVars, hist>>
         [] OTHER -> UNCHANGED <<timerVars, hist>>
    /\ NoSend(inbox)
    /\ UNCHANGED <<readyState, dataChannel, isOfferer, keyVars, currentPin,
                   sigVars, tasks, nextKey>>
    /\ Spend("transport")
    /\ UNCHANGED farVars

\* peer.oniceconnectionstatechange
IceConnectionStateChange(st) ==
    /\ peer /= NoPeer
    /\ st \in IceNext(peer.ice)
    /\ peer' = [peer EXCEPT !.ice = st]
    /\ CASE st = "connected" ->
              /\ ClearReconnectTimer
              /\ reconnectAttempts' = 0
              /\ UNCHANGED hist
         [] EmitsDisconnected(st) ->
              IF Transient(st)
              THEN /\ AttemptReconnect
                   /\ hist' = [Retire(hist) EXCEPT !.gaveUp = @ \/ Exceeded]
              ELSE UNCHANGED <<timerVars, hist>>
         [] OTHER -> UNCHANGED <<timerVars, hist>>
    /\ NoSend(inbox)
    /\ UNCHANGED <<readyState, dataChannel, isOfferer, keyVars, currentPin,
                   sigVars, tasks, nextKey>>
    /\ Spend("transport")
    /\ UNCHANGED farVars

\* peer.onicecandidate with a candidate
IceCandidate ==
    /\ peer /= NoPeer
    /\ SigSend(SignalMsg(Payload(None, "candidate", NoJwk)), inbox)
    /\ UNCHANGED <<readyState, p2pVars, sigVars, timerPending, tasks, nextKey, hist>>
    /\ UNCHANGED <<used, farVars>>

\* peer.ondatachannel: the remote side opened a channel
DataChannelAnnounced ==
    /\ peer /= NoPeer
    /\ dataChannel' = "connecting"
    /\ NoSend(inbox)
    /\ UNCHANGED <<readyState, peer, isOfferer, keyVars, currentPin, timerVars,
                   sigVars, tasks, nextKey, hist>>
    /\ Spend("transport")
    /\ UNCHANGED farVars

\* dataChannel.onopen
DataChannelOpen ==
    /\ dataChannel = "connecting"
    /\ dataChannel' = "open"
    /\ NoSend(inbox)
    /\ UNCHANGED <<readyState, peer, isOfferer, keyVars, currentPin, timerVars,
                   sigVars, tasks, nextKey, hist>>
    /\ Spend("transport")
    /\ UNCHANGED farVars

\* dataChannel.onclose
DataChannelClose ==
    /\ dataChannel \in {"connecting", "open"}
    /\ dataChannel' = "closed"
    /\ hist' = Retire(hist)
    /\ NoSend(inbox)
    /\ UNCHANGED <<readyState, peer, isOfferer, keyVars, currentPin, timerVars,
                   sigVars, tasks, nextKey>>
    /\ Spend("transport")
    /\ UNCHANGED farVars

\* the callback attemptReconnect passed to setTimeout
TimerFire ==
    /\ timerPending
    /\ timerPending' = FALSE
    /\ Cleanup
    /\ SigJoin(currentPin, inbox)
    /\ hist' = [hist EXCEPT !.orphan = @ \/ hist.left, !.fp = FALSE,
                            !.cleaned = TRUE]
    /\ UNCHANGED <<readyState, isOfferer, currentPin, reconnectAttempts,
                   reconnectTimer, attached, tasks, nextKey>>
    /\ UNCHANGED <<used, farVars>>

\* ------------------------------------------------------- the user
\* P2PService.join
UserJoin(pin) ==
    /\ currentPin' = pin
    /\ ClearReconnectTimer
    /\ reconnectAttempts' = 0
    /\ attached' = TRUE
    /\ SigJoin(pin, inbox)
    /\ hist' = [Retire(hist) EXCEPT !.left = FALSE, !.gaveUp = FALSE,
                                    !.joined = FALSE]
    /\ UNCHANGED <<readyState, peer, dataChannel, isOfferer, keyVars, tasks, nextKey>>
    /\ Spend("calls")
    /\ UNCHANGED farVars

\* P2PService.leave
UserLeave ==
    /\ attached' = FALSE
    /\ SigSend(ClientMsg("leave", None, None), inbox)
    /\ sigPin' = NoPin
    /\ Cleanup
    /\ hist' = [hist EXCEPT !.left = TRUE, !.fp = FALSE, !.cleaned = TRUE]
    /\ UNCHANGED <<readyState, isOfferer, currentPin, timerVars, ws, wsReady,
                   wsOnOpen, tasks, nextKey>>
    /\ Spend("calls")
    /\ UNCHANGED farVars

\* ------------------------------------------------------- the client's socket
\* ws.onopen: the handler join installed sends the join
WsOpen ==
    /\ ws /= 0
    /\ wsReady = "CONNECTING"
    /\ readyState[ws] /= "NEW"
    /\ wsReady' = "OPEN"
    /\ wsOnOpen' = NoPin
    /\ IF wsOnOpen /= NoPin
       THEN Transmit(ClientMsg("join", StrPin(wsOnOpen), None), inbox)
       ELSE NoSend(inbox)
    /\ UNCHANGED <<readyState, p2pVars, ws, sigPin, attached, timerPending,
                   tasks, nextKey, hist>>
    /\ UNCHANGED <<used, farVars>>

\* ws.onclose, after the messages that arrived before the close
WsClose ==
    /\ ws /= 0
    /\ readyState[ws] \in {"CLOSING", "CLOSED"}
    /\ inbox = <<>>
    /\ ws' = 0
    /\ wsReady' = None
    /\ wsOnOpen' = NoPin
    /\ NoSend(inbox)
    /\ UNCHANGED <<readyState, p2pVars, sigPin, attached, timerPending,
                   tasks, nextKey, hist>>
    /\ UNCHANGED <<used, farVars>>

\* ------------------------------------------------------- SpecP2P
\* One client (P2PService over WebSocketSignalingService) and the relay.  The
\* sockets in PeerSockets are connected from the start and belong to peers
\* that speak the relay's protocol directly; the others are what the client's
\* connect() opens.
InitP2P ==
    /\ pinRooms = EmptyMap
    /\ socketToPin = EmptyMap
    /\ readyState = [s \in P2PSockets |->
                        IF s \in PeerSockets THEN "OPEN" ELSE "NEW"]
    /\ sent = <<>>
    /\ ClientInit

PeerFrame == UNCHANGED <<p2pVars, sigVars, timerPending, tasks, nextKey, hist>>

\* p2pWss.on("connection") for the socket the client is opening
Connection ==
    /\ ws /= 0
    /\ readyState[ws] = "NEW"
    /\ readyState' = [readyState EXCEPT ![ws] = "OPEN"]
    /\ RelayIdle
    /\ UNCHANGED clientVars

PeerJoin(s, pin) ==
    /\ Relayed(JoinResult(s, StrPin(pin)), inbox)
    /\ PeerFrame
    /\ UNCHANGED readyState
    /\ Spend("peerOps")
    /\ UNCHANGED farVars

PeerSignal(s, data) ==
    /\ s \in DOMAIN socketToPin
    /\ Relayed(SignalResult(s, data), inbox)
    /\ PeerFrame
    /\ UNCHANGED readyState
    /\ Spend("peerOps")
    /\ UNCHANGED farVars

PeerLeave(s) ==
    /\ s \in DOMAIN socketToPin
    /\ Relayed(RemoveResult(s), inbox)
    /\ PeerFrame
    /\ UNCHANGED readyState
    /\ Spend("peerOps")
    /\ UNCHANGED farVars

\* the client's connection goes down
SocketClosing ==
    /\ ws /= 0
    /\ readyState[ws] = "OPEN"
    /\ readyState' = [readyState EXCEPT ![ws] = "CLOSING"]
    /\ RelayIdle
    /\ UNCHANGED clientVars

\* ws.on("close") at the relay for a socket of the client
SocketClose(s) ==
    /\ readyState[s] = "CLOSING"
    /\ readyState' = [readyState EXCEPT ![s] = "CLOSED"]
    /\ Relayed(RemoveResult(s), inbox)
    /\ PeerFrame
    /\ UNCHANGED <<used, farVars>>

NextP2P ==
    \/ Connection
    \/ \E s \in PeerSockets, pin \in ClientPins : PeerJoin(s, pin)
    \/ \E s \in PeerSockets, data \in PeerPayloads : PeerSignal(s, data)
    \/ \E s \in PeerSockets : PeerLeave(s)
    \/ SocketClosing
    \/ \E s \in P2PSockets : SocketClose(s)
    \/ \E pin \in ClientPins : UserJoin(pin)
    \/ UserLeave
    \/ WsOpen
    \/ WsMessage
    \/ WsClose
    \/ ReadyResume
    \/ SdpResume
    \/ CandidateResume
    \/ KeyResume
    \/ \E st \in {"connecting", "connected", "disconnected", "failed"} :
           ConnectionStateChange(st)
    \/ \E st \in {"checking", "connected", "disconnected", "failed"} :
           IceConnectionStateChange(st)
    \/ IceCandidate
    \/ DataChannelAnnounced
    \/ DataChannelOpen
    \/ DataChannelClose
    \/ TimerFire

SpecP2P == InitP2P /\ [][NextP2P]_vars

\* ------------------------------------------------------- SpecLink
\* SpecP2P with peer connections that also report the state closed.
LinkAllowance == [calls |-> MaxLinkCalls, peerOps |-> MaxLinkPeerOps,
                  transport |-> MaxLinkTransport]

InitLink ==
    /\ pinRooms = EmptyMap
    /\ socketToPin = EmptyMap
    /\ readyState = [s \in P2PSockets |->
                        IF s \in PeerSockets THEN "OPEN" ELSE "NEW"]
    /\ sent = <<>>
    /\ ClientFields
    /\ used = Budget(LinkAllowance)

NextLink ==
    \/ NextP2P
    \/ ConnectionStateChange("closed")
    \/ IceConnectionStateChange("closed")

SpecLink == InitLink /\ [][NextLink]_vars

\* ======================================================= SpecAlone
\* The client of SpecP2P with nobody else: no peer ever joins.  The user
\* joins once, and leaves.
AloneAllowance == [calls |-> MaxAloneCalls]

AloneJoin(pin) ==
    /\ currentPin = NoPin
    /\ UserJoin(pin)

InitAlone ==
    /\ pinRooms = EmptyMap
    /\ socketToPin = EmptyMap
    /\ readyState = [s \in P2PSockets |->
                        IF s \in PeerSockets THEN "OPEN" ELSE "NEW"]
    /\ sent = <<>>
    /\ ClientFields
    /\ used = Budget(AloneAllowance)

NextAlone ==
    \/ Connection
    \/ SocketClosing
    \/ \E s \in P2PSockets : SocketClose(s)
    \/ \E pin \in ClientPins : AloneJoin(pin)
    \/ UserLeave
    \/ WsOpen
    \/ WsMessage
    \/ WsClose

SpecAlone == InitAlone /\ [][NextAlone]_vars

\* ======================================================= SpecRetry
\* The client of SpecP2P with one call of join and a transport that fails
\* again and again: the peer connection and the peers get the steps it takes
\* to use up the reconnection attempts.
RetryAllowance == [calls |-> MaxRetryCalls, peerOps |-> MaxRetryPeerOps,
                   transport |-> MaxRetryTransport]

InitRetry ==
    /\ pinRooms = EmptyMap
    /\ socketToPin = EmptyMap
    /\ readyState = [s \in P2PSockets |->
                        IF s \in PeerSockets THEN "OPEN" ELSE "NEW"]
    /\ sent = <<>>
    /\ ClientFields
    /\ used = Budget(RetryAllowance)

NextRetry ==
    \/ Connection
    \/ \E s \in PeerSockets : PeerJoin(s, PinA)
    \/ \E s \in PeerSockets : PeerSignal(s, Payload("offer", None, NoJwk))
    \/ \E s \in PeerSockets : PeerLeave(s)
    \/ UserJoin(PinA)
    \/ WsOpen
    \/ WsMessage
    \/ ReadyResume
    \/ SdpResume
    \/ \E st \in {"connecting", "connected", "failed"} :
           ConnectionStateChange(st)
    \/ \E st \in {"checking", "failed"} :
           IceConnectionStateChange(st)
    \/ TimerFire

SpecRetry == InitRetry /\ [][NextRetry]_vars

\* ======================================================= SpecPair
\* Two clients, each a P2PService over a WebSocketSignalingService, in one
\* room of the relay.  Session descriptions and candidates are left to
\* SpecP2P: here the RTCPeerConnections are the environment, which announces
\* and opens the data channel once both ends have a peer connection; the
\* sockets stay open.
\* ------------------------------------------------------- sessionCrypto
\* key pair k of client c
KeyOf(c, k) == (c - 1) * MaxPairKeys + k
\* crypto.subtle.deriveBits: the ECDH secret of (private a, public b)
DeriveBits(priv, pub) == {priv, pub}
\* the first 16 hex digits of SHA-256 of the secret, in groups of four
ComputeFingerprint(priv, pub) == <<"sha256/16", DeriveBits(priv, pub)>>
IVs == 1..MaxIv
EncryptWithSession(key, text, iv) ==
    [iv |-> iv, ciphertext |-> [key |-> key, iv |-> iv, text |-> text]]
\* AES-GCM authenticates: decrypt rejects under another key or vector
CanDecrypt(key, iv, ct) == ct.key = key /\ ct.iv = iv
DecryptWithSession(key, iv, ct) == ct.text

\* JSON.stringify({ t: "text", v }) and ({ t: "enc", iv, ct })
TextFrame(text) == [t |-> "text", v |-> text, iv |-> 0, ct |-> NoCipher]
EncFrame(e) == [t |-> "enc", v |-> NoText, iv |-> e.iv, ct |-> e.ciphertext]

MessageEvent(text) == [type |-> "message", data |-> text]
ErrorEvent == [type |-> "error", data |-> NoText]

\* a suspended handler and what its pending call was given
NoArg == [jwk |-> NoJwk, priv |-> NoKey, pub |-> NoKey, key |-> NoSessionKey,
          text |-> NoText, iv |-> 0, ct |-> NoCipher]
Job(fn, at, arg) == [fn |-> fn, at |-> at, arg |-> arg]
Without(seq, i) == SubSeq(seq, 1, i - 1) \o SubSeq(seq, i + 1, Len(seq))
Jobs(c, fn) == {i \in DOMAIN loop[c].tasks : loop[c].tasks[i].fn = fn}

PairAllowance == [calls |-> MaxPairCalls, sends |-> 0, transport |-> 0]
ChatAllowance == [calls |-> MaxChatCalls, sends |-> MaxSends,
                  transport |-> MaxChatTransport]
PairFrame ==
    UNCHANGED <<p2pVars, sigVars, loopVars, hist, pollVars, http, trail, crypt,
                conn, localStorage>>

\* ------------------------------------------------------- client -> relay
Deliver(lp, out) ==
    [c \in Clients |-> [lp[c] EXCEPT !.inbox = @ \o Received(out, c)]]

PairRelayed(r, lp) ==
    /\ pinRooms' = r.rooms
    /\ socketToPin' = r.pins
    /\ sent' = <<>>
    /\ loop' = Deliver(lp, r.out)
    /\ \A c \in Clients : Len(loop'[c].inbox) <= MaxPairInbox

PairNoSend(lp) == RelayIdle /\ loop' = lp

\* WebSocketSignalingService.send of client c
PairSigSend(c, m, lp) ==
    IF svc[c].wsReady = "OPEN"
    THEN PairRelayed(RelayReceives(c, m), lp)
    ELSE PairNoSend(lp)

\* ------------------------------------------------------- P2PService, parts
\* cleanup of client c; closing its peer connection closes the other end of
\* the channel and loses what is in flight
PairCleanup(sv, c) ==
    [sv EXCEPT ![c].dataChannel = None,
               ![c].peer = NoPeer,
               ![c].ephPriv = NoKey,
               ![c].ephPubJwk = NoJwk,
               ![c].remotePub = NoKey,
               ![c].sessionKey = NoSessionKey,
               ![Other(c)].dataChannel =
                   IF sv[c].peer /= NoPeer /\ @ /= None THEN "closed" ELSE @]

Forgotten(c) ==
    /\ wire' = IF svc[c].peer /= NoPeer THEN [x \in Clients |-> <<>>] ELSE wire
    /\ log' = [x \in Clients |->
                 [log[x] EXCEPT !.fp = IF x = c THEN NoFingerprint ELSE @,
                                !.posted = {}]]

HoldsSessionKey_Never(sv) == FALSE
\* !this.sessionKey
HoldsSessionKey(sv) == sv.sessionKey /= NoSessionKey

\* ------------------------------------------------------- the users
\* P2PService.join
PairUserJoin(c) ==
    /\ IF svc[c].wsReady = "OPEN"
       THEN /\ svc' = [svc EXCEPT ![c].attached = TRUE]
            /\ PairSigSend(c, ClientMsg("join", StrPin(PinA), None), loop)
       ELSE /\ svc' = [svc EXCEPT ![c].attached = TRUE,
                                  ![c].wsReady = "CONNECTING",
                                  ![c].wsOnOpen = PinA]
            /\ PairNoSend(loop)
    /\ UNCHANGED <<readyState, wire, log>>
    /\ PairFrame
    /\ Spend("calls")

\* P2PService.leave
PairUserLeave(c) ==
    /\ svc' = PairCleanup([svc EXCEPT ![c].attached = FALSE], c)
    /\ PairSigSend(c, ClientMsg("leave", None, None), loop)
    /\ Forgotten(c)
    /\ UNCHANGED readyState
    /\ PairFrame
    /\ Spend("calls")

\* P2PService.send
PairSend(c) ==
    LET text == used.spent.sends + 1
        open == svc[c].dataChannel = "open"
        plain == open /\ ~HoldsSessionKey(svc[c])
        sealed == open /\ HoldsSessionKey(svc[c])
    IN  /\ log' = [log EXCEPT
                     ![c].calls = @ \cup {[text |-> text, open |-> open,
                                           keyed |-> svc[c].sessionKey /= {}]},
                     ![c].posted = IF open THEN @ \cup {text} ELSE @,
                     ![c].frames = IF plain THEN @ \cup {TextFrame(text)} ELSE @]
        /\ wire' = IF plain
                   THEN [wire EXCEPT ![Other(c)] = Append(@, TextFrame(text))]
                   ELSE wire
        /\ sealed => Len(loop[c].tasks) < MaxPairTasks
        /\ loop' = IF sealed
                   THEN [loop EXCEPT ![c].tasks =
                           Append(@, Job("send", "encrypt",
                                         [NoArg EXCEPT !.key = svc[c].sessionKey,
                                                       !.text = text]))]
                   ELSE loop
        /\ RelayIdle
        /\ UNCHANGED <<readyState, svc>>
        /\ PairFrame
        /\ Spend("sends")

\* the callback send passed to then: encryptWithSession has resolved.
\* this.dataChannel!.send throws when the field is null (TypeError) and
\* when the channel is not open (InvalidStateError); the promise then
\* returns is rejected and nothing handles it.
PairEncryptResumeOf(c, i, iv) ==
    LET t == loop[c].tasks[i]
        frame == EncFrame(EncryptWithSession(t.arg.key, t.arg.text, iv))
        open == svc[c].dataChannel = "open"
    IN  /\ loop' = [loop EXCEPT ![c].tasks = Without(@, i)]
        /\ wire' = IF open
                   THEN [wire EXCEPT ![Other(c)] = Append(@, frame)]
                   ELSE wire
        /\ log' = IF open
                  THEN [log EXCEPT ![c].frames = @ \cup {frame}]
                  ELSE [log EXCEPT ![c].uncaught = TRUE]
        /\ RelayIdle
        /\ UNCHANGED <<readyState, svc, used>>
        /\ PairFrame

PairEncryptResume(c) ==
    \E i \in Jobs(c, "send"), iv \in IVs : PairEncryptResumeOf(c, i, iv)

\* ------------------------------------------------------- the sockets
\* p2pWss.on("connection") for the socket client c is opening
PairConnection(c) ==
    /\ svc[c].wsReady = "CONNECTING"
    /\ readyState[c] = "NEW"
    /\ readyState' = [readyState EXCEPT ![c] = "OPEN"]
    /\ RelayIdle
    /\ UNCHANGED <<pairVars, used>>
    /\ PairFrame

\* ws.onopen
PairWsOpen(c) ==
    /\ svc[c].wsReady = "CONNECTING"
    /\ readyState[c] = "OPEN"
    /\ svc' = [svc EXCEPT ![c].wsReady = "OPEN", ![c].wsOnOpen = NoPin]
    /\ IF svc[c].wsOnOpen /= NoPin
       THEN PairRelayed(RelayReceives(c, ClientMsg("join", StrPin(svc[c].wsOnOpen), None)),
                        loop)
       ELSE PairNoSend(loop)
    /\ UNCHANGED <<readyState, wire, log, used>>
    /\ PairFrame

\* ------------------------------------------------------- handleSignal
KeySignal(jwk) == SignalMsg(Payload(None, None, jwk))

PairOnReady(c, lp) ==
    LET sv == svc[c]
        pc == IF sv.peer = NoPeer THEN NewPeer ELSE sv.peer
        off == IF ~sv.isOfferer THEN sv.dataChannel = None ELSE sv.isOfferer
    IN  /\ IF sv.ephPriv = NoKey
           THEN /\ Len(lp[c].tasks) < MaxPairTasks
                /\ svc' = [svc EXCEPT ![c].peer = pc, ![c].isOfferer = off]
                /\ PairNoSend([lp EXCEPT ![c].tasks =
                                 Append(@, Job("ready", "generateKey", NoArg))])
           ELSE /\ svc' = [svc EXCEPT
                             ![c].peer = pc,
                             ![c].isOfferer = off,
                             ![c].dataChannel = IF off THEN "connecting" ELSE @]
                /\ PairSigSend(c, KeySignal(sv.ephPubJwk), lp)
        /\ UNCHANGED <<wire, log>>

PairOnKey(c, lp, jwk) ==
    /\ Len(lp[c].tasks) < MaxPairTasks
    /\ PairNoSend([lp EXCEPT ![c].tasks =
                     Append(@, Job("key", "importKey", [NoArg EXCEPT !.jwk = jwk]))])
    /\ UNCHANGED <<svc, wire, log>>

PairOnPeerLeft(c, lp) ==
    /\ svc' = PairCleanup(svc, c)
    /\ Forgotten(c)
    /\ PairNoSend(lp)

PairIgnore(lp) ==
    /\ PairNoSend(lp)
    /\ UNCHANGED <<svc, wire, log>>

\* ws.onmessage, dispatch, and handleSignal up to its first await
PairWsMessage(c) ==
    /\ loop[c].inbox /= <<>>
    /\ LET evt == Head(loop[c].inbox)
           lp == [loop EXCEPT ![c].inbox = Tail(@)]
       IN  IF ~svc[c].attached THEN PairIgnore(lp)
           ELSE IF evt.type = "ready" THEN PairOnReady(c, lp)
           ELSE IF evt.type = "signal" /\ evt.data.key /= NoJwk
                THEN PairOnKey(c, lp, evt.data.key)
           ELSE IF evt.type = "peerLeft" THEN PairOnPeerLeft(c, lp)
           ELSE PairIgnore(lp)
    /\ UNCHANGED <<readyState, used>>
    /\ PairFrame

\* the ready branch resumes: generateEphemeralKeyPair has resolved
PairReadyResumeOf(c, i) ==
    LET k == KeyOf(c, loop[c].nextKey + 1)
        lp == [loop EXCEPT ![c].tasks = Without(@, i), ![c].nextKey = @ + 1]
    IN  /\ loop[c].nextKey < MaxPairKeys
        /\ svc' = [svc EXCEPT
                     ![c].ephPriv = k,
                     ![c].ephPubJwk = Jwk(k),
                     ![c].peer = IF svc[c].isOfferer /\ @ = NoPeer THEN NewPeer ELSE @,
                     ![c].dataChannel = IF svc[c].isOfferer THEN "connecting" ELSE @]
        /\ PairSigSend(c, KeySignal(Jwk(k)), lp)
        /\ UNCHANGED <<readyState, wire, log, used>>
        /\ PairFrame

PairReadyResume(c) == \E i \in Jobs(c, "ready") : PairReadyResumeOf(c, i)

\* the key branch resumes after an await
PairKeyResumeOf(c, i) ==
    LET t == loop[c].tasks[i]
        sv == svc[c]
        goesOn(next) == loop' = [loop EXCEPT ![c].tasks[i] = next]
        ends == loop' = [loop EXCEPT ![c].tasks = Without(@, i)]
    IN  /\ CASE t.at = "importKey" ->
                  /\ svc' = [svc EXCEPT ![c].remotePub = ImportRemotePublicKey(t.arg.jwk)]
                  /\ IF sv.ephPriv /= NoKey
                     THEN goesOn(Job("key", "deriveKey",
                                     [NoArg EXCEPT !.priv = sv.ephPriv,
                                                   !.pub = svc'[c].remotePub]))
                     ELSE ends
                  /\ UNCHANGED log
             [] t.at = "deriveKey" ->
                  /\ svc' = [svc EXCEPT ![c].sessionKey =
                                          DeriveSessionKey(t.arg.priv, t.arg.pub)]
                  /\ IF sv.ephPriv /= NoKey /\ sv.remotePub /= NoKey
                     THEN goesOn(Job("key", "computeFingerprint",
                                     [NoArg EXCEPT !.priv = sv.ephPriv,
                                                   !.pub = sv.remotePub]))
                     ELSE ends
                  /\ UNCHANGED log
             [] t.at = "computeFingerprint" ->
                  /\ ends
                  /\ log' = [log EXCEPT ![c].fp =
                                          ComputeFingerprint(t.arg.priv, t.arg.pub)]
                  /\ UNCHANGED svc
        /\ RelayIdle
        /\ UNCHANGED <<readyState, wire, used>>
        /\ PairFrame

PairKeyResume(c) == \E i \in Jobs(c, "key") : PairKeyResumeOf(c, i)

\* ------------------------------------------------------- the data channel
\* peer.ondatachannel at c: the channel the other end created
PairChannelAnnounced(c) ==
    /\ svc[c].peer /= NoPeer
    /\ svc[Other(c)].peer /= NoPeer
    /\ svc[Other(c)].dataChannel \in {"connecting", "open"}
    /\ svc' = [svc EXCEPT ![c].dataChannel = "connecting"]
    /\ RelayIdle
    /\ UNCHANGED <<readyState, loop, wire, log>>
    /\ PairFrame
    /\ Spend("transport")

\* dataChannel.onopen at c
PairChannelOpen(c) ==
    /\ svc[c].dataChannel = "connecting"
    /\ svc[Other(c)].peer /= NoPeer
    /\ svc' = [svc EXCEPT ![c].dataChannel = "open"]
    /\ RelayIdle
    /\ UNCHANGED <<readyState, loop, wire, log>>
    /\ PairFrame
    /\ Spend("transport")

\* dataChannel.onmessage at c
PairChannelMessage(c) ==
    /\ wire[c] /= <<>>
    /\ svc[c].dataChannel = "open"
    /\ LET msg == Head(wire[c])
       IN  /\ wire' = [wire EXCEPT ![c] = Tail(@)]
           /\ IF msg.t = "enc" /\ HoldsSessionKey(svc[c])
              THEN /\ Len(loop[c].tasks) < MaxPairTasks
                   /\ loop' = [loop EXCEPT ![c].tasks =
                                 Append(@, Job("onmessage", "decrypt",
                                               [NoArg EXCEPT !.key = svc[c].sessionKey,
                                                             !.iv = msg.iv,
                                                             !.ct = msg.ct]))]
                   /\ log' = [log EXCEPT ![c].handled = @ + 1]
              ELSE IF msg.t = "text"
              THEN /\ log' = [log EXCEPT ![c].handled = @ + 1,
                                         ![c].events = Append(@, MessageEvent(msg.v))]
                   /\ UNCHANGED loop
              ELSE /\ log' = [log EXCEPT ![c].handled = @ + 1]
                   /\ UNCHANGED loop
    /\ RelayIdle
    /\ UNCHANGED <<readyState, svc, used>>
    /\ PairFrame

\* decryptWithSession has settled: then or catch
PairDecryptResumeOf(c, i) ==
    LET t == loop[c].tasks[i]
    IN  /\ loop' = [loop EXCEPT ![c].tasks = Without(@, i)]
        /\ log' = [log EXCEPT ![c].events =
                     Append(@, IF CanDecrypt(t.arg.key, t.arg.iv, t.arg.ct)
                               THEN MessageEvent(DecryptWithSession(t.arg.key, t.arg.iv,
                                                                    t.arg.ct))
                               ELSE ErrorEvent)]
        /\ RelayIdle
        /\ UNCHANGED <<readyState, svc, wire, used>>
        /\ PairFrame

PairDecryptResume(c) == \E i \in Jobs(c, "onmessage") : PairDecryptResumeOf(c, i)

InitPair ==
    /\ pinRooms = EmptyMap
    /\ socketToPin = EmptyMap
    /\ readyState = [s \in Clients |-> "NEW"]
    /\ sent = <<>>
    /\ ClientFields
    /\ used = Budget(PairAllowance)

NextPair ==
    \/ \E c \in Clients : PairUserJoin(c)
    \/ \E c \in Clients : PairUserLeave(c)
    \/ \E c \in Clients : PairConnection(c)
    \/ \E c \in Clients : PairWsOpen(c)
    \/ \E c \in Clients : PairWsMessage(c)
    \/ \E c \in Clients : PairReadyResume(c)
    \/ \E c \in Clients : PairKeyResume(c)

SpecPair == InitPair /\ [][NextPair]_vars

\* ------------------------------------------------------- SpecChat
\* the same two clients, which also talk over the data channel
InitChat ==
    /\ pinRooms = EmptyMap
    /\ socketToPin = EmptyMap
    /\ readyState = [s \in Clients |-> "NEW"]
    /\ sent = <<>>
    /\ ClientFields
    /\ used = Budget(ChatAllowance)

NextChat ==
    \/ \E c \in Clients : PairUserJoin(c)
    \/ \E c \in Clients : PairUserLeave(c)
    \/ \E c \in Clients : PairConnection(c)
    \/ \E c \in Clients : PairWsOpen(c)
    \/ \E c \in Clients : PairWsMessage(c)
    \/ \E c \in Clients : PairReadyResume(c)
    \/ \E c \in Clients : PairKeyResume(c)
    \/ \E c \in Clients : PairChannelAnnounced(c)
    \/ \E c \in Clients : PairChannelOpen(c)
    \/ \E c \in Clients : PairSend(c)
    \/ \E c \in Clients : PairEncryptResume(c)
    \/ \E c \in Clients : PairChannelMessage(c)
    \/ \E c \in Clients : PairDecryptResume(c)

SpecChat == InitChat /\ [][NextChat]_vars

\* ======================================================= SpecPoll
\* Two clients, each an HttpPollingSignalingService, and the function that
\* stores their signals.  A request is one step, taken when the function
\* handles it; no request fails.
PollAllowance == [calls |-> MaxPollCalls, sends |-> MaxPollSends, polls |-> MaxPolls]

\* crypto.randomUUID()
MyId(c) == c
Presence(c) == [t |-> "presence", id |-> MyId(c), body |-> 0]
LeaveSignal(c) == [t |-> "leave", id |-> MyId(c), body |-> 0]
\* what P2PService hands to sendSignal: it has neither t nor id
DataSignal(n) == [t |-> "none", id |-> 0, body |-> n]

Range(seq) == {seq[i] : i \in DOMAIN seq}

\* exports.handler, POST
Post(store, pin, signal) ==
    IF pin = <<>> THEN store
    ELSE MapSet(store, pin,
                Append(IF pin \in DOMAIN store THEN store[pin] ELSE <<>>, signal))
\* exports.handler, GET: the signals returned, and the store afterwards
GetSignals(store, pin) ==
    IF pin /= <<>> /\ pin \in DOMAIN store THEN store[pin] ELSE <<>>
GetStore(store, pin) ==
    IF pin = <<>> THEN store ELSE MapSet(store, pin, <<>>)

\* the for loop of pollOnce over signals from index i on: the fields and the
\* events dispatched after it
RECURSIVE PollLoop(_, _, _, _)
PollLoop(c, signals, i, acc) ==
    IF i > Len(signals) THEN acc
    ELSE LET sig == signals[i]
             other == sig.id /= 0 /\ sig.id /= MyId(c)
         IN  IF sig.t = "presence" /\ other
             THEN PollLoop(c, signals, i + 1,
                    [acc EXCEPT !.presenceSeen = TRUE,
                                !.seenPeers = @ \cup {sig.id},
                                !.events = IF sig.id \in acc.seenPeers THEN @
                                           ELSE Append(@, [type |-> "peerJoined", data |-> DataSignal(0)])])
             ELSE IF sig.t = "leave" /\ other
             THEN PollLoop(c, signals, i + 1,
                    [acc EXCEPT !.seenPeers = @ \ {sig.id},
                                !.events = IF sig.id \in acc.seenPeers
                                           THEN Append(@, [type |-> "peerLeft", data |-> DataSignal(0)])
                                           ELSE @])
             ELSE PollLoop(c, signals, i + 1,
                    [acc EXCEPT !.events = Append(@, [type |-> "signal", data |-> sig])])

\* the pairing after the events from index i on have been dispatched
RECURSIVE Pairing(_, _, _)
Pairing(p, events, i) ==
    IF i > Len(events) THEN p
    ELSE LET type == events[i].type
         IN  Pairing(IF type = "peerJoined" THEN [open |-> TRUE, readies |-> 0]
                     ELSE IF type = "peerLeft" THEN NoPairing
                     ELSE IF type = "ready" THEN [p EXCEPT !.readies = @ + 1]
                     ELSE p,
                     events, i + 1)

\* the clients whose interval is running
Polling == {c \in DOMAIN poll : poll[c].polling}

PollFrame ==
    UNCHANGED <<relayVars, p2pVars, sigVars, loopVars, hist, pairVars, http,
                trail, crypt, conn, localStorage>>

\* HttpPollingSignalingService.join; its first pollOnce is PollPost
PollJoin(c) ==
    /\ poll' = [poll EXCEPT ![c].pin = PinA,
                            ![c].joinedEmitted = FALSE,
                            ![c].readyEmitted = FALSE,
                            ![c].seenPeers = {},
                            ![c].polling = TRUE,
                            ![c].intervals = @ + 1]
    /\ seen' = [seen EXCEPT ![c].third = Cardinality(Polling \ {c}) >= 2,
                            ![c].pairing = NoPairing]
    /\ UNCHANGED rooms
    /\ Spend("calls")
    /\ PollFrame

\* HttpPollingSignalingService.leave
PollLeave(c) ==
    /\ poll[c].polling
    /\ rooms' = Post(rooms, poll[c].pin, LeaveSignal(c))
    /\ poll' = [poll EXCEPT ![c].pin = <<>>,
                            ![c].joinedEmitted = FALSE,
                            ![c].readyEmitted = FALSE,
                            ![c].seenPeers = {},
                            ![c].polling = FALSE,
                            ![c].intervals = @ - 1]
    /\ seen' = [seen EXCEPT ![c].third = FALSE, ![c].pairing = NoPairing]
    /\ Spend("calls")
    /\ PollFrame

\* HttpPollingSignalingService.sendSignal
PollSendSignal(c) ==
    /\ Spend("sends")
    /\ LET data == DataSignal(used'.spent.sends)
       IN  /\ rooms' = Post(rooms, poll[c].pin, data)
           /\ seen' = IF poll[c].pin = <<>> THEN seen
                      ELSE [seen EXCEPT ![c].posted = @ \cup {data},
                                        ![c].paired = IF Polling \ {c} /= {}
                                                      THEN @ \cup {data} ELSE @]
    /\ UNCHANGED poll
    /\ PollFrame

\* pollOnce starts (from join or from the interval) and posts the heartbeat
PollPost(c) ==
    /\ poll[c].polling
    /\ poll[c].once.at = "idle"
    /\ rooms' = Post(rooms, poll[c].pin, Presence(c))
    /\ poll' = [poll EXCEPT ![c].once.at = "get"]
    /\ UNCHANGED seen
    /\ Spend("polls")
    /\ PollFrame

\* pollOnce after the heartbeat: the GET
PollGet(c) ==
    /\ poll[c].once.at = "get"
    /\ rooms' = GetStore(rooms, poll[c].pin)
    /\ poll' = [poll EXCEPT ![c].once = [at |-> "json",
                                         signals |-> GetSignals(rooms, poll[c].pin)]]
    /\ UNCHANGED <<seen, used>>
    /\ PollFrame

\* pollOnce after await res.json(): the loop, joined and ready
PollDispatch(c) ==
    /\ poll[c].once.at = "json"
    /\ LET after == PollLoop(c, poll[c].once.signals, 1,
                             [presenceSeen |-> FALSE,
                              seenPeers |-> poll[c].seenPeers,
                              events |-> <<>>])
           joined == IF poll[c].joinedEmitted THEN <<>>
                     ELSE <<[type |-> "joined",
                             data |-> DataSignal(IF after.presenceSeen THEN 2 ELSE 1)]>>
           ready == IF after.presenceSeen /\ ~poll[c].readyEmitted
                    THEN <<[type |-> "ready", data |-> DataSignal(0)]>>
                    ELSE <<>>
       IN  /\ poll' = [poll EXCEPT ![c].once = Idle,
                                   ![c].seenPeers = after.seenPeers,
                                   ![c].joinedEmitted = TRUE,
                                   ![c].readyEmitted = @ \/ after.presenceSeen]
           /\ seen' = [seen EXCEPT
                         ![c].events = @ \cup Range(after.events \o joined \o ready),
                         ![c].pairing = Pairing(@, after.events \o joined \o ready, 1)]
    /\ UNCHANGED <<rooms, used>>
    /\ PollFrame

InitPoll ==
    /\ pinRooms = EmptyMap
    /\ socketToPin = EmptyMap
    /\ readyState = [s \in Clients |-> "NEW"]
    /\ sent = <<>>
    /\ ClientFields
    /\ used = Budget(PollAllowance)

NextPoll ==
    \/ \E c \in Clients : PollJoin(c)
    \/ \E c \in Clients : PollLeave(c)
    \/ \E c \in Clients : PollSendSignal(c)
    \/ \E c \in Clients : PollPost(c)
    \/ \E c \in Clients : PollGet(c)
    \/ \E c \in Clients : PollDispatch(c)

SpecPoll == InitPoll /\ [][NextPoll]_vars

\* SpecPoll with calls enough for a client to leave and join again
RejoinAllowance == [calls |-> MaxRejoinCalls, sends |-> MaxRejoinSends,
                    polls |-> MaxRejoinPolls]

InitRejoin ==
    /\ pinRooms = EmptyMap
    /\ socketToPin = EmptyMap
    /\ readyState = [s \in Clients |-> "NEW"]
    /\ sent = <<>>
    /\ ClientFields
    /\ used = Budget(RejoinAllowance)

SpecRejoin == InitRejoin /\ [][NextPoll]_vars

\* SpecPoll with a third client
Pollers == 1..MaxPollers
CrowdAllowance == [calls |-> MaxCrowdCalls, sends |-> MaxCrowdSends,
                   polls |-> MaxCrowdPolls]

InitCrowd ==
    /\ pinRooms = EmptyMap
    /\ socketToPin = EmptyMap
    /\ readyState = [s \in Clients |-> "NEW"]
    /\ sent = <<>>
    /\ ClientCore
    /\ PollStart(Pollers)
    /\ used = Budget(CrowdAllowance)

NextCrowd ==
    \/ \E c \in Pollers : PollJoin(c)
    \/ \E c \in Pollers : PollLeave(c)
    \/ \E c \in Pollers : PollSendSignal(c)
    \/ \E c \in Pollers : PollPost(c)
    \/ \E c \in Pollers : PollGet(c)
    \/ \E c \in Pollers : PollDispatch(c)

SpecCrowd == InitCrowd /\ [][NextCrowd]_vars

\* SpecPoll with the interval running for ever: setInterval starts a pollOnce
\* every second and, no request failing, every request is answered.
PollFairAllowance == [calls |-> MaxPollCalls, sends |-> MaxFairSends]

InitPollFair ==
    /\ pinRooms = EmptyMap
    /\ socketToPin = EmptyMap
    /\ readyState = [s \in Clients |-> "NEW"]
    /\ sent = <<>>
    /\ ClientFields
    /\ used = Budget(PollFairAllowance)

SpecPollFair ==
    /\ InitPollFair
    /\ [][NextPoll]_vars
    /\ \A c \in Clients : /\ WF_vars(PollPost(c))
                          /\ WF_vars(PollGet(c))
                          /\ WF_vars(PollDispatch(c))

\* ======================================================= SpecStore
\* The function of netlify/functions/signaling.js under any requests: POST
\* with a body that does not parse, an empty body, an object without and
\* with a pin; GET without and with the header; OPTIONS and PUT.
\* a body: the empty string, text that is not JSON, or an object
Body(text, pin) == [text |-> text, pin |-> pin]
NoBody == Body("", <<>>)
Malformed == Body("{", <<>>)
StoreBodies ==
    {NoBody, Malformed} \cup {Body("{...}", p) : p \in {<<>>, PinA, PinB}}
StoreHeaders == {<<>>, PinA, PinB}
Request(method, body, header, signal) ==
    [method |-> method, body |-> body, header |-> header, signal |-> signal]

\* JSON.parse(body || "{}")
Parses(body) == body /= Malformed
ParseBody(body) == IF body = NoBody THEN [pin |-> <<>>] ELSE [pin |-> body.pin]
\* as if the pin were not looked at
HasPin_Always(data) == TRUE
\* !(!data || !data.pin)
HasPin(data) == data.pin /= <<>>
\* as if the read left the queue as it is
Drain_Never(store, pin) == store
\* rooms.set(pin, [])
Drain(store, pin) == MapSet(store, pin, <<>>)
\* rooms.get(pin) || []
Queue(store, pin) == IF pin \in DOMAIN store THEN store[pin] ELSE <<>>

Response(status, signals, store) ==
    [status |-> status, signals |-> signals, store |-> store]

\* exports.handler
Handler(store, req) ==
    CASE req.method = "OPTIONS" -> Response(204, <<>>, store)
      [] req.method = "POST" ->
            IF ~Parses(req.body) THEN Response(400, <<>>, store)
            ELSE LET data == ParseBody(req.body)
                 IN  IF ~HasPin(data) THEN Response(400, <<>>, store)
                     ELSE Response(200, <<>>,
                                   MapSet(store, data.pin,
                                          Append(Queue(store, data.pin), req.signal)))
      [] req.method = "GET" ->
            IF req.header = <<>> THEN Response(400, <<>>, store)
            ELSE Response(200, Queue(store, req.header), Drain(store, req.header))
      [] OTHER -> Response(405, <<>>, store)

StoreFrame ==
    UNCHANGED <<relayVars, p2pVars, sigVars, loopVars, hist, used, pairVars,
                poll, seen, trail, crypt, conn, localStorage>>

Handle(req) ==
    /\ Len(http) < MaxRequests
    /\ LET res == Handler(rooms, req)
       IN  /\ rooms' = res.store
           /\ http' = Append(http, [req |-> req, status |-> res.status,
                                    signals |-> res.signals])
    /\ StoreFrame

\* the n-th request carries signal n
StorePost == \E body \in StoreBodies : Handle(Request("POST", body, <<>>, Len(http) + 1))
StoreGet == \E header \in StoreHeaders : Handle(Request("GET", NoBody, header, 0))
StoreOther == \E method \in {"OPTIONS", "PUT"} : Handle(Request(method, NoBody, <<>>, 0))

InitStore ==
    /\ pinRooms = EmptyMap
    /\ socketToPin = EmptyMap
    /\ readyState = [s \in Clients |-> "NEW"]
    /\ sent = <<>>
    /\ ClientInit

NextStore == StorePost \/ StoreGet \/ StoreOther

SpecStore == InitStore /\ [][NextStore]_vars

\* ======================================================= SpecCodec
\* sessionCrypto on its own: encryptWithSession and decryptWithSession as
\* functions of strings.  A string is its sequence of UTF-16 code units, a
\* buffer a sequence of bytes, a base64 string a sequence of digits 0..63
\* and the padding sign.
Nul == 0
LetterA == 65
EAcute == 233
EuroSign == 8364
ByteOrderMark == 65279
Replacement == 65533
HighSurrogate == 55357
LowSurrogate == 56832
Units == {Nul, LetterA, EAcute, EuroSign, ByteOrderMark, HighSurrogate, LowSurrogate}
Messages == UNION {[1..n -> Units] : n \in 0..MaxLen}
CodecKeys == 1..MaxCodecKeys
CodecIVs == 0..MaxCodecIv
FlipBits == {0, 7}

IsHigh(u) == u \in 55296..56319
IsLow(u) == u \in 56320..57343
IsSurrogate(u) == IsHigh(u) \/ IsLow(u)

RECURSIVE Flatten(_)
Flatten(seqs) == IF seqs = <<>> THEN <<>> ELSE Head(seqs) \o Flatten(Tail(seqs))

\* string -> scalar values: a surrogate pair is one code point, a surrogate
\* on its own becomes U+FFFD
RECURSIVE CodePoints(_)
CodePoints(str) ==
    IF str = <<>> THEN <<>>
    ELSE IF IsHigh(str[1]) /\ Len(str) >= 2 /\ IsLow(str[2])
    THEN <<65536 + (str[1] - 55296) * 1024 + (str[2] - 56320)>>
         \o CodePoints(Tail(Tail(str)))
    ELSE IF IsSurrogate(str[1])
    THEN <<Replacement>> \o CodePoints(Tail(str))
    ELSE <<str[1]>> \o CodePoints(Tail(str))

Utf8(cp) ==
    IF cp < 128 THEN <<cp>>
    ELSE IF cp < 2048 THEN <<192 + (cp \div 64), 128 + (cp % 64)>>
    ELSE IF cp < 65536
    THEN <<224 + (cp \div 4096), 128 + ((cp \div 64) % 64), 128 + (cp % 64)>>
    ELSE <<240 + (cp \div 262144), 128 + ((cp \div 4096) % 64),
           128 + ((cp \div 64) % 64), 128 + (cp % 64)>>

\* new TextEncoder().encode(str)
Encode(str) ==
    LET cps == CodePoints(str)
    IN  Flatten([i \in 1..Len(cps) |-> Utf8(cps[i])])

IsTrail(bytes, i) == Len(bytes) >= i /\ bytes[i] \in 128..191
Drop(seq, n) == SubSeq(seq, n + 1, Len(seq))

\* UTF-8 -> scalar values; a byte that starts no sequence becomes U+FFFD
RECURSIVE Scalars(_)
Scalars(bytes) ==
    IF bytes = <<>> THEN <<>>
    ELSE LET b == bytes[1]
         IN  IF b < 128 THEN <<b>> \o Scalars(Tail(bytes))
             ELSE IF b \in 194..223 /\ IsTrail(bytes, 2)
             THEN <<(b - 192) * 64 + (bytes[2] - 128)>> \o Scalars(Drop(bytes, 2))
             ELSE IF b \in 224..239 /\ IsTrail(bytes, 2) /\ IsTrail(bytes, 3)
                     /\ (b > 224 \/ bytes[2] >= 160)
                     /\ (b /= 237 \/ bytes[2] < 160)
             THEN <<(b - 224) * 4096 + (bytes[2] - 128) * 64 + (bytes[3] - 128)>>
                  \o Scalars(Drop(bytes, 3))
             ELSE IF b \in 240..244 /\ IsTrail(bytes, 2) /\ IsTrail(bytes, 3)
                     /\ IsTrail(bytes, 4)
                     /\ (b > 240 \/ bytes[2] >= 144)
                     /\ (b < 244 \/ bytes[2] < 144)
             THEN <<(b - 240) * 262144 + (bytes[2] - 128) * 4096
                    + (bytes[3] - 128) * 64 + (bytes[4] - 128)>>
                  \o Scalars(Drop(bytes, 4))
             ELSE <<Replacement>> \o Scalars(Tail(bytes))

Utf16(cp) ==
    IF cp < 65536 THEN <<cp>>
    ELSE <<55296 + ((cp - 65536) \div 1024), 56320 + ((cp - 65536) % 1024)>>

\* new TextDecoder().decode(bytes): utf-8, not fatal, and ignoreBOM false,
\* so a byte order mark at the start is taken off
Decode(bytes) ==
    LET cps == Scalars(bytes)
        body == IF cps /= <<>> /\ cps[1] = ByteOrderMark THEN Tail(cps) ELSE cps
    IN  Flatten([i \in 1..Len(body) |-> Utf16(body[i])])

\* the sign "="
Padding == 64

\* arrayBufferToBase64: btoa of the bytes as characters
RECURSIVE ArrayBufferToBase64(_)
ArrayBufferToBase64(bytes) ==
    IF bytes = <<>> THEN <<>>
    ELSE IF Len(bytes) = 1
    THEN <<bytes[1] \div 4, (bytes[1] % 4) * 16, Padding, Padding>>
    ELSE IF Len(bytes) = 2
    THEN <<bytes[1] \div 4, (bytes[1] % 4) * 16 + (bytes[2] \div 16),
           (bytes[2] % 16) * 4, Padding>>
    ELSE <<bytes[1] \div 4, (bytes[1] % 4) * 16 + (bytes[2] \div 16),
           (bytes[2] % 16) * 4 + (bytes[3] \div 64), bytes[3] % 64>>
         \o ArrayBufferToBase64(Drop(bytes, 3))

\* base64ToArrayBuffer: the character codes of atob(base64)
RECURSIVE Base64ToArrayBuffer(_)
Base64ToArrayBuffer(base64) ==
    IF Len(base64) < 4 THEN <<>>
    ELSE LET d == base64
             one == <<d[1] * 4 + (d[2] \div 16)>>
             two == <<(d[2] % 16) * 16 + (d[3] \div 4)>>
             three == <<(d[3] % 4) * 64 + d[4]>>
         IN  IF d[3] = Padding THEN one
             ELSE IF d[4] = Padding THEN one \o two
             ELSE one \o two \o three \o Base64ToArrayBuffer(Drop(base64, 4))

RECURSIVE SumBytes(_)
SumBytes(bytes) == IF bytes = <<>> THEN 0 ELSE bytes[1] + SumBytes(Tail(bytes))

\* AES-GCM, reduced to what the callers rely on: the keystream depends on
\* key, iv and position; the tag (one byte here, sixteen in AES-GCM)
\* depends on key, iv and every bit of the ciphertext.
TagLength == 1
Keystream(key, iv, i) == (key * 31 + SumBytes(iv) * 7 + i) % 256
Tag(key, iv, body) == (SumBytes(body) + key * 101 + SumBytes(iv) * 3 + Len(body)) % 256

\* crypto.subtle.encrypt({ name: "AES-GCM", iv }, key, data)
SubtleEncrypt(key, iv, data) ==
    LET body == [i \in 1..Len(data) |-> (data[i] + Keystream(key, iv, i)) % 256]
    IN  Append(body, Tag(key, iv, body))

Rejects == [ok |-> FALSE, bytes |-> <<>>]
\* crypto.subtle.decrypt({ name: "AES-GCM", iv }, key, ct): rejects with an
\* OperationError when the tag does not verify
SubtleDecrypt(key, iv, ct) ==
    IF Len(ct) < TagLength THEN Rejects
    ELSE LET body == SubSeq(ct, 1, Len(ct) - TagLength)
         IN  IF ct[Len(ct)] /= Tag(key, iv, body) THEN Rejects
             ELSE [ok |-> TRUE,
                   bytes |-> [i \in 1..Len(body) |->
                                (body[i] + 256 - Keystream(key, iv, i)) % 256]]

\* encryptWithSession(key, plaintext), with the iv getRandomValues returned
EncryptString(key, plaintext, iv) ==
    [iv |-> ArrayBufferToBase64(iv),
     ciphertext |-> ArrayBufferToBase64(SubtleEncrypt(key, iv, Encode(plaintext)))]

\* decryptWithSession(key, ivB64, ciphertextB64): the string it resolves
\* with, or its rejection
DecryptString(key, ivB64, ciphertextB64) ==
    LET pt == SubtleDecrypt(key, Base64ToArrayBuffer(ivB64),
                            Base64ToArrayBuffer(ciphertextB64))
    IN  IF pt.ok THEN [ok |-> TRUE, text |-> Decode(pt.bytes)]
        ELSE [ok |-> FALSE, text |-> <<>>]

\* one bit of one byte of the buffer changed
FlipBit(bytes, j, b) ==
    [bytes EXCEPT ![j] = IF (@ \div Pow(2, b)) % 2 = 1
                         THEN @ - Pow(2, b) ELSE @ + Pow(2, b)]

Run(at, res) == [at |-> at, ok |-> res.ok, text |-> res.text]
Done(run) == run.at /= <<>>

CodecFrame ==
    UNCHANGED <<relayVars, p2pVars, sigVars, loopVars, hist, used, pairVars,
                pollVars, http, trail, conn, localStorage>>

\* encryptWithSession(key, m)
CodecEncrypt ==
    /\ crypt.sealed = NoSealed
    /\ \E iv \in CodecIVs :
         crypt' = [crypt EXCEPT !.sealed = EncryptString(crypt.key, crypt.m, <<iv>>)]
    /\ CodecFrame

\* decryptWithSession(key, iv, ct) of what encryptWithSession returned
CodecDecrypt ==
    /\ crypt.sealed /= NoSealed
    /\ ~Done(crypt.same)
    /\ crypt' = [crypt EXCEPT !.same =
                   Run(<<"same">>, DecryptString(crypt.key, crypt.sealed.iv,
                                                 crypt.sealed.ciphertext))]
    /\ CodecFrame

\* the same under another key
CodecDecryptOther ==
    /\ crypt.sealed /= NoSealed
    /\ ~Done(crypt.other)
    /\ \E k \in CodecKeys \ {crypt.key} :
         crypt' = [crypt EXCEPT !.other =
                     Run(<<k>>, DecryptString(k, crypt.sealed.iv,
                                              crypt.sealed.ciphertext))]
    /\ CodecFrame

\* the same after one bit of the ciphertext has changed
CodecDecryptBent ==
    /\ crypt.sealed /= NoSealed
    /\ ~Done(crypt.bent)
    /\ LET ct == Base64ToArrayBuffer(crypt.sealed.ciphertext)
       IN  \E j \in DOMAIN ct, b \in FlipBits :
             crypt' = [crypt EXCEPT !.bent =
                         Run(<<j, b>>,
                             DecryptString(crypt.key, crypt.sealed.iv,
                                           ArrayBufferToBase64(FlipBit(ct, j, b))))]
    /\ CodecFrame

InitCodec ==
    /\ pinRooms = EmptyMap
    /\ socketToPin = EmptyMap
    /\ readyState = [s \in Sockets |-> "OPEN"]
    /\ sent = <<>>
    /\ ClientBase
    /\ PollInit
    /\ used = Budget(Allowance)
    /\ crypt \in {Fresh(key, m) : key \in CodecKeys, m \in Messages}

NextCodec ==
    \/ CodecEncrypt
    \/ CodecDecrypt
    \/ CodecDecryptOther
    \/ CodecDecryptBent

SpecCodec == InitCodec /\ [][NextCodec]_vars

\* ======================================================= SpecConnect
\* WebSocketService (client/src/lib/websocket.ts): connect(userId), the
\* socket it creates, the promise it returns and its timers.  Socket i and
\* promise i belong to the i-th call of connect.
ConnectFrame ==
    UNCHANGED <<relayVars, p2pVars, sigVars, loopVars, hist, used, pairVars,
                pollVars, http, trail, crypt, localStorage>>

Connects == 1..MaxConnects
Made(i) == i \in DOMAIN conn.socks
Pending(i) == Made(i) /\ conn.promises[i] = "pending"
\* this.ws?.readyState === WebSocket.OPEN
WsIsOpen(c) == c.ws /= 0 /\ c.socks[c.ws] = "OPEN"

\* resolve() and reject() of a promise that is settled already do nothing
Settle(promises, i, how) ==
    IF promises[i] = "pending" THEN [promises EXCEPT ![i] = how] ELSE promises

\* connect(userId): new WebSocket, new Promise, setTimeout(..., 10000)
Connect(c) ==
    [c EXCEPT !.socks = Append(@, "CONNECTING"),
              !.ws = Len(c.socks) + 1,
              !.promises = Append(@, "pending"),
              !.timers = Append(@, TRUE)]

\* the application calls connect
ConnectCall ==
    /\ Len(conn.socks) < MaxConnects
    /\ ~conn.called \/ conn.off
    /\ conn' = [Connect(conn) EXCEPT !.called = TRUE, !.off = FALSE]
    /\ ConnectFrame

\* ws.onopen of socket i: this.send goes to this.ws, if that is open
ConnectOpen(i) ==
    /\ Made(i)
    /\ conn.socks[i] = "CONNECTING"
    /\ LET c == [conn EXCEPT !.socks[i] = "OPEN", !.reconnectAttempts = 0,
                             !.delays = <<>>]
       IN  conn' = [c EXCEPT !.asked = IF WsIsOpen(c) THEN @ \cup {c.ws} ELSE @]
    /\ ConnectFrame

\* ws.onmessage of socket i with { type: "authenticated" }, which the server
\* sends in reply to authenticate
ConnectAuthenticated(i) ==
    /\ Made(i)
    /\ conn.socks[i] = "OPEN"
    /\ i \in conn.asked
    /\ conn' = [conn EXCEPT !.promises = Settle(@, i, "resolved"),
                            !.asked = @ \ {i}]
    /\ ConnectFrame

\* ws.onerror of socket i
ConnectError(i) ==
    /\ Made(i)
    /\ conn.socks[i] \in {"CONNECTING", "OPEN", "CLOSING"}
    /\ ~conn.failed[i]
    /\ conn' = [conn EXCEPT !.promises = Settle(@, i, "rejected"),
                            !.failed[i] = TRUE]
    /\ ConnectFrame

\* this.reconnectDelay * this.reconnectAttempts, after the increment
WsDelay(attempts) == ReconnectDelay * attempts

\* ws.onclose of socket i, then attemptReconnect
ConnectClose(i) ==
    /\ Made(i)
    /\ conn.socks[i] \in {"CONNECTING", "OPEN", "CLOSING"}
    /\ LET retry == conn.reconnectAttempts < MaxWsReconnects
       IN  conn' = [conn EXCEPT
                      !.socks[i] = "CLOSED",
                      !.reconnectAttempts = IF retry THEN @ + 1 ELSE @,
                      !.retries = IF retry THEN @ + 1 ELSE @,
                      !.delays = IF retry
                                 THEN Append(@, WsDelay(conn.reconnectAttempts + 1))
                                 ELSE @]
    /\ ConnectFrame

\* the timer of attemptReconnect: this.connect(userId).catch(console.error)
ConnectRetry ==
    /\ conn.retries > 0
    /\ Len(conn.socks) < MaxConnects
    /\ conn' = [Connect(conn) EXCEPT !.retries = @ - 1]
    /\ ConnectFrame

\* the ten-second timer of call i
ConnectTimeout(i) ==
    /\ Made(i)
    /\ conn.timers[i]
    /\ conn' = [conn EXCEPT
                  !.timers[i] = FALSE,
                  !.promises = IF WsIsOpen(conn) THEN @ ELSE Settle(@, i, "rejected")]
    /\ ConnectFrame

\* disconnect(): this.ws.close(), this.ws = null; onclose comes later
ConnectDisconnect ==
    /\ conn.ws /= 0
    /\ conn' = [conn EXCEPT !.ws = 0, !.off = TRUE,
                            !.socks[conn.ws] = IF @ = "CLOSED" THEN @ ELSE "CLOSING"]
    /\ ConnectFrame

InitConnect ==
    /\ pinRooms = EmptyMap
    /\ socketToPin = EmptyMap
    /\ readyState = [s \in Sockets |-> "OPEN"]
    /\ sent = <<>>
    /\ ClientFields
    /\ used = Budget(Allowance)

NextConnect ==
    \/ ConnectCall
    \/ \E i \in Connects : ConnectOpen(i)
    \/ \E i \in Connects : ConnectAuthenticated(i)
    \/ \E i \in Connects : ConnectError(i)
    \/ \E i \in Connects : ConnectClose(i)
    \/ ConnectRetry
    \/ \E i \in Connects : ConnectTimeout(i)
    \/ ConnectDisconnect

\* timers fire; whether the server answers, and whether the socket opens,
\* fails or closes, is not up to the client
SpecConnect ==
    /\ InitConnect
    /\ [][NextConnect]_vars
    /\ \A i \in Connects : WF_vars(ConnectTimeout(i))
    /\ WF_vars(ConnectRetry)

\* ============================================ messageStore on localStorage
\* The stored list of a peerId is the sequence of the ids of its records
\* (crypto.randomUUID: the number of the call stands for it); getItem of a
\* key never written gives null, which loadMessages turns into [].
MessagesFrame ==
    UNCHANGED <<relayVars, p2pVars, sigVars, loopVars, hist, used, pairVars,
                pollVars, http, trail, crypt, conn>>

Saves == 1..MaxSaves
Called(k) == k \in DOMAIN localStorage.calls
Stored(p) == {localStorage.items[p][i] : i \in DOMAIN localStorage.items[p]}

\* loadMessages up to its return: the list parsed from what getItem gave
LoadMessages(items, p) == items[p]

\* encryptAndStoreMessage is called and suspends in deriveKey
EncryptAndStoreMessage(p) ==
    /\ Len(localStorage.calls) < MaxSaves
    /\ localStorage' = [localStorage EXCEPT
                          !.calls = Append(@, [peerId |-> p, at |-> "encrypt",
                                               list |-> <<>>])]
    /\ MessagesFrame

\* the key and the ciphertext are there: the record is built, loadMessages
\* reads the stored list, and the call suspends on the promise it returned
StoreLoad(k) ==
    /\ Called(k)
    /\ localStorage.calls[k].at = "encrypt"
    /\ localStorage' = [localStorage EXCEPT
                          !.calls[k].at = "load",
                          !.calls[k].list =
                              LoadMessages(localStorage.items,
                                           localStorage.calls[k].peerId)]
    /\ MessagesFrame

\* the call resumes with the list: list.push(record), setItem
StorePush(k) ==
    /\ Called(k)
    /\ localStorage.calls[k].at = "load"
    /\ LET call == localStorage.calls[k]
       IN  localStorage' = [localStorage EXCEPT
                              !.calls[k].at = "done",
                              !.items[call.peerId] = Append(call.list, k)]
    /\ MessagesFrame

InitMessages ==
    /\ pinRooms = EmptyMap
    /\ socketToPin = EmptyMap
    /\ readyState = [s \in Sockets |-> "OPEN"]
    /\ sent = <<>>
    /\ ClientFields
    /\ used = Budget(Allowance)

NextMessages ==
    \/ \E p \in PeerIds : EncryptAndStoreMessage(p)
    \/ \E k \in Saves : StoreLoad(k)
    \/ \E k \in Saves : StorePush(k)

SpecMessages == InitMessages /\ [][NextMessages]_vars

\* ======================================================= claims on the relay
\* The vocabulary of the claims, stated independently of the handlers.
RoomAt(pin) == IF pin \in DOMAIN pinRooms THEN pinRooms[pin] ELSE <<>>
RoomsOf(s) == {p \in DOMAIN pinRooms : s \in Members(pinRooms[p])}
SixDecimalDigits(str) ==
    /\ DOMAIN str = 1..6
    /\ {str[i] : i \in DOMAIN str} \subseteq Digits
\* the pin member exactly as the client put it into the message
PinAsSent(raw) == IF raw.kind = "absent" THEN <<>> ELSE raw.chars
Packet(s, type, pin, occupants, data) ==
    [to |-> s, msg |-> [type |-> type, pin |-> pin,
                        occupants |-> occupants, data |-> data]]
Count(seq, x) == Cardinality({i \in DOMAIN seq : seq[i] = x})
TypesSent == {sent[i].msg.type : i \in DOMAIN sent}
SentTo(s) == {sent[i].msg : i \in {k \in DOMAIN sent : sent[k].to = s}}
Connected(room) == {m \in Members(room) : readyState[m] = "OPEN"}
Unreaped(room) == {m \in Members(room) : readyState[m] /= "CLOSED"}
\* the inputs by what the relay makes of them
Normalized == [raw \in RawPins |-> NormalizePin(raw)]
RejectedRaws == {raw \in RawPins : ~SixDecimalDigits(Normalized[raw])}
MalformedRaws == {raw \in RawPins : ~SixDecimalDigits(PinAsSent(raw))}

\* C1: every room of pinRooms holds at most 2 sockets, and a join addressed
\* to a room that already has 2 members is answered with roomFull alone and
\* changes neither pinRooms nor socketToPin.
C1_RoomHoldsAtMostTwo ==
    /\ [](\A p \in DOMAIN pinRooms : Cardinality(Members(pinRooms[p])) <= 2)
    /\ [][\A raw \in RoomPins :
            Len(RoomAt(Normalized[raw])) >= 2
            => \A s \in Sockets :
                 Join(s, raw)
                 => /\ sent' = <<Packet(s, "roomFull", Normalized[raw], 0, None)>>
                    /\ pinRooms' = pinRooms
                    /\ socketToPin' = socketToPin]_vars

\* C1 witness: a third socket was told roomFull by a room of two others.
C1_Witness ==
    \E i \in DOMAIN sent :
        /\ sent[i].msg.type = "roomFull"
        /\ Cardinality(Members(RoomAt(sent[i].msg.pin)) \ {sent[i].to}) = 2

\* C2: ready is sent only by a join step that brings a room to exactly 2
\* members, then once to each of the two members, and never while fewer
\* than two connected sockets are members of that room.  A socket counts as
\* connected until its close event has been handled, and a member whose
\* readyState has already left OPEN is not expected to be sent anything.
C2_ReadyOncePerPairing ==
    "ready" \in TypesSent =>
        \E p \in DOMAIN pinRooms :
            /\ Cardinality(Members(pinRooms[p])) = 2
            /\ Cardinality(Unreaped(pinRooms[p])) = 2
            /\ \A m \in Connected(pinRooms[p]) :
                   Count(sent, Packet(m, "ready", None, 0, None)) = 1
            /\ \A i \in DOMAIN sent :
                   sent[i].msg.type = "ready" => sent[i].to \in Members(pinRooms[p])

\* C3: a signal received from socket A is sent with the same data to every
\* other member of A's room and never to A.
C3_RelayToEveryOtherMember ==
    [][\A s \in WireSockets, d \in Data :
         (Signal(s, d) /\ s \in DOMAIN socketToPin)
         => /\ \A m \in Members(RoomAt(socketToPin[s])) \ {s} :
                   Count(sent', Packet(m, "signal", None, 0, d)) = 1
            /\ \A i \in DOMAIN sent' : sent'[i].to /= s]_vars

\* C3 as amended: the signal goes, with the same data and once each, to
\* exactly the other members of A's room whose socket is open, and to no
\* other socket.
C3_RelayToEveryOtherOpenMember ==
    [][\A s \in WireSockets, d \in Data :
         Signal(s, d)
         => LET room == IF s \in DOMAIN socketToPin
                        THEN RoomAt(socketToPin[s]) ELSE <<>>
                targets == Connected(room) \ {s}
            IN  /\ \A m \in targets :
                       Count(sent', Packet(m, "signal", None, 0, d)) = 1
                /\ Len(sent') = Cardinality(targets)
                /\ pinRooms' = pinRooms /\ socketToPin' = socketToPin]_vars

\* C3 witness: a signal was relayed to the other member of a full room.
C3_Witness ==
    \E i \in DOMAIN sent, p \in DOMAIN pinRooms :
        /\ sent[i].msg.type = "signal"
        /\ sent[i].msg.data \in Data
        /\ Cardinality(Members(pinRooms[p])) = 2
        /\ sent[i].to \in Members(pinRooms[p])

\* C4: no socket is contained in the member set of more than one room.
C4_AtMostOneRoomPerSocket ==
    \A s \in Sockets : Cardinality(RoomsOf(s)) <= 1

\* C5: after a leave message or the close event of s has been handled, s is
\* in no room, every member remaining in the room s belonged to (whose
\* socket is open) has been sent peerLeft, an emptied room is deleted, and
\* hence no room keeps a closed socket as a member.
C5_RemovedOnLeaveAndClose ==
    /\ [](\A p \in DOMAIN pinRooms :
             \A m \in Members(pinRooms[p]) : readyState[m] /= "CLOSED")
    /\ [][\A s \in Sockets :
            ((Leave(s) \/ Close(s)) /\ s \in DOMAIN socketToPin)
            => /\ RoomsOf(s)' = {}
               /\ \A m \in Connected(RoomAt(socketToPin[s])) \ {s} :
                      Count(sent', Packet(m, "peerLeft", None, 0, None)) = 1
               /\ \A p \in DOMAIN pinRooms' : pinRooms'[p] /= <<>>]_vars

\* C6: pinRooms never holds a room with zero members; once the last member
\* of a room has left or closed the entry is gone, so that a join on a PIN
\* none of whose members is still connected is answered as a first join,
\* with joined carrying occupants 1.
C6_EmptyRoomIsDeleted ==
    /\ [](\A p \in DOMAIN pinRooms : Members(pinRooms[p]) /= {})
    /\ [][\A s \in Sockets :
            (Leave(s) \/ Close(s))
            => \A p \in DOMAIN pinRooms' : Members(pinRooms'[p]) /= {s}]_vars
    /\ [][\A raw \in RoomPins :
            (\A m \in Members(RoomAt(Normalized[raw])) : readyState[m] = "CLOSED")
            => \A s \in Sockets :
                 Join(s, raw)
                 => sent' = <<Packet(s, "joined", Normalized[raw], 1, None)>>]_vars

\* C7: a join whose pin is not exactly six decimal digits is answered with
\* error to the caller alone and changes neither pinRooms nor socketToPin.
C7_InvalidPinRejected ==
    [][\A raw \in MalformedRaws, s \in WireSockets :
         Join(s, raw)
         => /\ sent' = <<Packet(s, "error", None, 0, None)>>
            /\ pinRooms' = pinRooms
            /\ socketToPin' = socketToPin]_vars

\* C7 as amended: a join whose pin, converted to a string and stripped of
\* surrounding whitespace, is not exactly six decimal digits is answered
\* with error to the caller alone and changes neither map.
C7_InvalidTrimmedPinRejected ==
    [][\A raw \in RejectedRaws, s \in WireSockets :
         Join(s, raw)
         => /\ sent' = <<Packet(s, "error", None, 0, None)>>
            /\ pinRooms' = pinRooms
            /\ socketToPin' = socketToPin]_vars

\* C7 witness: a member of a room was answered error and is still only there.
C7_Witness ==
    \E s \in Sockets :
        /\ sent = <<Packet(s, "error", None, 0, None)>>
        /\ s \in DOMAIN socketToPin
        /\ RoomsOf(s) = {socketToPin[s]}

\* who is sent what type of message by a handler, in order
Shape(out) == [i \in 1..Len(out) |-> <<out[i].to, out[i].msg.type>>]

\* C27: whatever the state of the relay, two signal messages from the same
\* socket that differ in their data payload only leave the same pinRooms
\* and socketToPin and send the same types of message to the same
\* recipients in the same order; the handler of a signal changes neither
\* map, so no payload stays in the relay.
C27_PayloadIsOpaque ==
    /\ [](\A s \in WireSockets, d1 \in Data, d2 \in Data :
            LET r1 == SignalResult(s, d1)
                r2 == SignalResult(s, d2)
            IN  /\ r1.rooms = r2.rooms
                /\ r1.pins = r2.pins
                /\ Shape(r1.out) = Shape(r2.out))
    /\ [][(sent' /= <<>> /\ sent'[1].msg.type = "signal")
            => UNCHANGED <<pinRooms, socketToPin>>]_vars

\* C27 witness: a signal carrying the payload d2 has just been relayed to
\* the other member of the room.
C27_Witness ==
    /\ sent /= <<>>
    /\ sent[1].msg.type = "signal"
    /\ sent[1].msg.data = "d2"
    /\ \E pin \in DOMAIN pinRooms : Len(pinRooms[pin]) = 2

\* the messages socket.send was given for the signal taken in as number k,
\* addressed to socket b
Sends(k, b) == {i \in DOMAIN trail.put : trail.put[i].n = k /\ trail.put[i].to = b}

\* C28: every signal the relay takes in from a member is sent exactly once,
\* with its payload, to each other member of the sender's room whose socket
\* is open, and a socket is sent the signals in the order the relay took
\* them in.
C28_SignalsInOrderOnce ==
    /\ \A k \in DOMAIN trail.got : \A b \in trail.got[k].mates :
          /\ Cardinality(Sends(k, b)) = 1
          /\ \A i \in Sends(k, b) : trail.put[i].data = trail.got[k].data
    /\ \A i, j \in DOMAIN trail.put :
          (i < j /\ trail.put[i].to = trail.put[j].to)
              => trail.put[i].n < trail.put[j].n

\* ======================================================= claims on the client
\* C8: from the return of P2PService.leave() until the next call of join(),
\* no reconnect timer is pending and no timer callback has run (none emitted
\* `connecting` or called signalingService.join for the old pin).
C8_NoTimerAfterLeave ==
    hist.left => ~timerPending /\ ~hist.orphan

\* C9: the ready handler never announces an ephemeral key that the service
\* already held when an earlier negotiation ended (a `disconnected` event, the
\* terminal reconnect error, or a call of join()).
C9_FreshKeyPerNegotiation ==
    ~hist.stale

\* C10: once the local private key and the remote public key are both present
\* and no handleSignal invocation is suspended, the session key is present and
\* a `fingerprint` event has been emitted for it.
C10_SessionKeyOnceBothKeysKnown ==
    (ephPriv /= NoKey /\ remotePub /= NoKey /\ tasks = {})
        => (sessionKey /= NoSessionKey /\ hist.fp)

\* a state change handler of the peer connection runs and emits disconnected
StateChangeEmitsDisconnected ==
    \/ peer'.conn /= peer.conn /\ EmitsDisconnected(peer'.conn)
    \/ peer'.ice /= peer.ice /\ EmitsDisconnected(peer'.ice)
\* handleSignal runs for a peerLeft message
PeerLeftHandled ==
    /\ attached
    /\ inbox /= <<>>
    /\ Head(inbox).type = "peerLeft"
    /\ inbox' = Tail(inbox)
TornDown ==
    /\ ephPriv = NoKey
    /\ ephPubJwk = NoJwk
    /\ remotePub = NoKey
    /\ sessionKey = NoSessionKey
    /\ peer = NoPeer
    /\ dataChannel = None

\* C15: at the end of a handler that emits `disconnected` (a state change of
\* the peer connection to disconnected, failed or closed, or a peerLeft
\* message), the ephemeral private key, the ephemeral public JWK, the remote
\* public key, the session key, the peer connection and the data channel are
\* all absent.
C15_DisconnectedTearsDown ==
    [][(StateChangeEmitsDisconnected \/ PeerLeftHandled) => TornDown']_vars

BackoffDelays == <<500, 1000, 2000, 4000, 8000>>

\* C16: reconnectAttempts never exceeds 5, and the timer that the N-th call
\* of attemptReconnect since the counter was reset has scheduled has the
\* delay 500, 1000, 2000, 4000, 8000 ms for N = 1..5.
C16_BackoffDelays ==
    /\ reconnectAttempts \in 0..5
    /\ reconnectTimer /= NoTimer =>
           /\ reconnectAttempts \in 1..5
           /\ reconnectTimer.delay = BackoffDelays[reconnectAttempts]

\* C16 witness: the fifth reconnection in a row has been scheduled.
C16_Witness ==
    /\ reconnectAttempts = 5
    /\ timerPending
    /\ reconnectTimer.delay = 8000

\* the timeout attemptReconnect set runs its callback
TimerFired ==
    /\ timerPending
    /\ ~timerPending'
    /\ reconnectTimer' = reconnectTimer

\* C17: once the error 'Reconnect attempts exceeded' has been emitted, no
\* timer is pending and no timer callback calls signalingService.join,
\* until the user calls join() again.
C17_NoRetryAfterGivingUp ==
    [][hist'.gaveUp => ~timerPending' /\ ~TimerFired]_vars

\* the messages the relay has sent to the client's socket in this step
Answers == SubSeq(inbox', Len(inbox) + 1, Len(inbox'))

\* C18: when the reconnect timer fires on an open socket, the relay then
\* holds the socket as a member of the room of currentPin and has not
\* answered roomFull; if a peer is in that room, the client was sent ready.
C18_TimerRejoinsRoom ==
    [][(TimerFired /\ ws /= 0 /\ wsReady = "OPEN" /\ readyState[ws] = "OPEN")
          => /\ SetHas(RoomAt(currentPin)', ws)
             /\ \A i \in DOMAIN Answers : Answers[i].type /= "roomFull"
             /\ (\E s \in PeerSockets :
                    SetHas(RoomAt(currentPin)', s))
                  => \E i \in DOMAIN Answers : Answers[i].type = "ready"]_vars

\* the client's socket is open at both ends
Intact == ws /= 0 /\ wsReady = "OPEN" /\ readyState[ws] = "OPEN"

\* C25: after the one call of join, with nobody else ever joining, the
\* relay sends the client nothing but joined with occupants 1, no negotiation starts, no reconnect timer
\* is scheduled and the service never gives up; a call of leave() on an
\* open socket leaves pinRooms without a room for the PIN that was
\* joined.
C25_AloneWaitsAndLeavesClean ==
    /\ [](/\ \A i \in DOMAIN inbox :
                inbox[i].type = "joined" /\ inbox[i].occupants = 1
           /\ peer = NoPeer /\ tasks = {}
           /\ ~timerPending /\ reconnectTimer = NoTimer /\ reconnectAttempts = 0
           /\ ~hist.gaveUp)
    /\ [][(attached /\ ~attached' /\ Intact) => sigPin \notin DOMAIN pinRooms']_vars

\* C25 witness: joined was dispatched, and the leave() that followed on the
\* open socket has emptied pinRooms.
C25_Witness ==
    /\ hist.joined /\ hist.left
    /\ ws /= 0 /\ wsReady = "OPEN" /\ readyState[ws] = "OPEN"
    /\ inbox = <<>>
    /\ currentPin \notin DOMAIN pinRooms

\* C26: no interleaving lets an exception or a promise rejection escape
\* uncaught: in particular the encryption send() started may complete after
\* cleanup() has cleared the data channel without anything being thrown.
C26_NothingEscapes ==
    \A c \in Clients : ~log[c].uncaught

\* attemptReconnect has set a timeout in this step
Scheduled ==
    /\ timerPending'
    /\ ~timerPending \/ reconnectTimer' /= reconnectTimer

\* a state change handler has run for disconnected or failed
LostTransport ==
    /\ peer /= NoPeer /\ peer' /= NoPeer
    /\ \/ peer'.conn /= peer.conn /\ peer'.conn \in {"disconnected", "failed"}
       \/ peer'.ice /= peer.ice /\ peer'.ice \in {"disconnected", "failed"}

C34_KeysStayCleared ==
    hist.cleaned => (sessionKey = NoSessionKey /\ remotePub = NoKey)

\* ======================================================= claims on two clients
\* nothing of the negotiation is under way: no relay message is undispatched
\* and no handler is suspended, at either client
Settled == \A c \in Clients : loop[c].tasks = <<>> /\ loop[c].inbox = <<>>
PublicKeyOf(c) ==
    IF svc[c].ephPubJwk = <<>> THEN 0 ELSE svc[c].ephPubJwk[2]

\* C11: whenever both clients have emitted a fingerprint since their last
\* cleanup and nothing of the negotiation is under way, the two fingerprints
\* are equal, the two session keys are equal, and each client's remote key
\* is the other client's present public key.
C11_FingerprintsAgree ==
    (Settled /\ \A c \in Clients : log[c].fp /= <<>>)
        => /\ log[1].fp = log[2].fp
           /\ svc[1].sessionKey = svc[2].sessionKey
           /\ \A c \in Clients : svc[c].remotePub = PublicKeyOf(Other(c))

\* what of the talk from a to the other client is still under way
InFlight(a) ==
    \/ wire[Other(a)] /= <<>>
    \/ \E i \in DOMAIN loop[a].tasks : loop[a].tasks[i].fn = "send"
    \/ \E i \in DOMAIN loop[Other(a)].tasks : loop[Other(a)].tasks[i].fn = "onmessage"
Heard(c, text) ==
    {i \in DOMAIN log[c].events : log[c].events[i] = [type |-> "message", data |-> text]}

\* C12: a text that send accepted at client a on an open data channel, the
\* channel being up at both ends ever since, has been emitted by the other
\* client as exactly one message event once nothing is in flight any more.
C12_SentTextIsHeardOnce ==
    \A a \in Clients : \A text \in log[a].posted :
        (svc[a].dataChannel = "open" /\ svc[Other(a)].dataChannel = "open"
         /\ ~InFlight(a))
            => Cardinality(Heard(Other(a), text)) = 1

FrameText(f) == IF f.t = "text" THEN f.v ELSE f.ct.text
FramesOf(c, text) == {f \in log[c].frames : FrameText(f) = text}

\* C13: a plaintext frame is transmitted only for a call of send made while
\* no session key was held; a call made while a session key was held has
\* only an encrypted frame (with iv and ciphertext) transmitted, a call
\* made while the data channel was not open has none, and no call has more
\* than one.
C13_PlaintextOnlyWithoutKey ==
    \A c \in Clients : \A call \in log[c].calls :
        /\ Cardinality(FramesOf(c, call.text)) <= 1
        /\ ~call.open => FramesOf(c, call.text) = {}
        /\ \A f \in FramesOf(c, call.text) :
               /\ f.t \in {"text", "enc"}
               /\ f.t = "text" => ~call.keyed /\ f.v = call.text
               /\ call.keyed => f.t = "enc" /\ f.iv \in 1..MaxIv /\ f.ct.text = call.text

\* C13 witness: one call of send went out as plaintext before the session
\* key was there, another as an encrypted frame after.
C13_Witness ==
    \E c \in Clients, d \in Clients :
        /\ \E f \in log[c].frames : f.t = "text"
        /\ \E f \in log[d].frames : f.t = "enc"

\* C14: once no decryption is pending at a client, every frame its
\* onmessage has received has produced exactly one message or error event.
C14_EveryFrameSurfaces ==
    \A c \in Clients :
        (\A i \in DOMAIN loop[c].tasks : loop[c].tasks[i].fn /= "onmessage")
            => Len(log[c].events) = log[c].handled

\* ======================================================= claims on store and poll
Dispatched(c, type) == {e.data : e \in {x \in seen[c].events : x.type = type}}

\* C19: no client is dispatched a signal event that carries a payload it
\* posted itself with sendSignal, or its own presence heartbeat.
C19_NoOwnSignalDispatched ==
    \A c \in Clients :
        Dispatched(c, "signal") \cap (seen[c].posted \cup {Presence(c)}) = {}

\* C20: while both clients poll the same pin, a payload one of them posted
\* with sendSignal when both were polling is not lost to the other: it has
\* been dispatched there unmodified as a signal event, or is still in the
\* store or in a response on its way there, from where a later poll
\* dispatches it.
C20_PayloadReachesPeer ==
    \A a \in Clients : \A data \in seen[a].paired :
        (poll[a].polling /\ poll[Other(a)].polling
         /\ poll[a].pin = poll[Other(a)].pin)
            => \/ data \in Dispatched(Other(a), "signal")
               \/ data \in Range(GetSignals(rooms, poll[a].pin))
               \/ data \in Range(poll[Other(a)].once.signals)

BothPolling ==
    /\ \A c \in Clients : poll[c].polling
    /\ poll[1].pin = poll[2].pin
MetEachOther ==
    \A c \in Clients :
        {"peerJoined", "ready"} \subseteq {e.type : e \in seen[c].events}

\* C21: when both clients have joined the same pin and keep polling, each of
\* them eventually dispatches peerJoined and ready (or one of them has left).
C21_PollersMeet ==
    BothPolling ~> (MetEachOther \/ ~BothPolling)

EventTypes(c) == {e.type : e \in seen[c].events}
PostedByOthers(c) == UNION {seen[o].posted : o \in DOMAIN seen \ {c}}

\* C22: a client that joined a pin while two clients were polling it is
\* told roomFull, not joined, and is dispatched none of the payloads the
\* others posted under that pin.
C22_ThirdPollerIsRefused ==
    \A c \in DOMAIN seen :
        seen[c].third =>
            /\ "joined" \notin EventTypes(c)
            /\ poll[c].joinedEmitted => "roomFull" \in EventTypes(c)
            /\ Dispatched(c, "signal") \cap PostedByOthers(c) = {}

\* C33: ready is dispatched once per pairing: after a pollOnce, a client to
\* which peerJoined was dispatched (and no peerLeft since) has been
\* dispatched exactly one ready since, and never more than one.
C33_ReadyOncePerPairing ==
    \A c \in Clients :
        /\ seen[c].pairing.readies <= 1
        /\ seen[c].pairing.open => seen[c].pairing.readies = 1

\* C37: whatever join() and leave() calls were made, a polling service has
\* at most one interval running, and none while it has no pin (after
\* leave()).
C37_OneInterval ==
    \A c \in Clients :
        /\ poll[c].intervals <= 1
        /\ poll[c].pin = <<>> => poll[c].intervals = 0

\* ======================================================= claims on the store
Appended(i) ==
    /\ http[i].req.method = "POST"
    /\ http[i].status = 200
Read(j, pin) ==
    /\ http[j].req.method = "GET"
    /\ http[j].status = 200
    /\ http[j].req.header = pin
\* the GETs whose response holds the signal of request i
Holders(i) ==
    {j \in DOMAIN http : http[j].req.method = "GET"
                         /\ http[i].req.signal \in Range(http[j].signals)}
LaterReads(i) == {j \in DOMAIN http : j > i /\ Read(j, http[i].req.body.pin)}
Ascending(seq) == \A x, y \in DOMAIN seq : x < y => seq[x] < seq[y]
JustHandled == http'[Len(http')]

\* C23: each signal a POST appended for pin p is in the response of the
\* first GET for p handled after it and of no other GET; a GET lists the
\* signals in the order their POSTs arrived; after a GET the queue of its
\* pin is empty and the queues of all other pins are as before.
C23_ReadOnceInOrder ==
    /\ [](\A i \in DOMAIN http : Appended(i) =>
             Holders(i) = {j \in LaterReads(i) : \A k \in LaterReads(i) : j <= k})
    /\ [](\A j \in DOMAIN http : Ascending(http[j].signals))
    /\ [][(http' /= http /\ JustHandled.req.method = "GET" /\ JustHandled.status = 200)
            => /\ Queue(rooms', JustHandled.req.header) = <<>>
               /\ \A pin \in (DOMAIN rooms \cup DOMAIN rooms') \ {JustHandled.req.header} :
                      Queue(rooms', pin) = Queue(rooms, pin)]_vars

\* C23 witness: a GET returned two signals while another pin had a signal
\* queued, and a second GET for the same pin was handled after it.
C23_Witness ==
    \E j, k \in DOMAIN http :
        /\ j < k
        /\ Read(j, PinA) /\ Read(k, PinA)
        /\ Len(http[j].signals) = 2
        /\ Queue(rooms, PinB) /= <<>>

\* the POST cannot be accepted: its body does not parse or names no pin
Unacceptable(req) ==
    \/ req.body = Malformed
    \/ req.body = NoBody
    \/ req.body.pin = <<>>

\* C24: a POST with a malformed body or without a pin and a GET without the
\* pin header are answered 400 and leave every queue as it was; a POST with
\* a pin is answered 200 and appends one entry, its signal, to the queue of
\* that pin and changes no other queue.
C24_RejectsLeaveStoreAlone ==
    [][http' /= http =>
         LET req == JustHandled.req
         IN  /\ (req.method = "POST" /\ Unacceptable(req))
                    => JustHandled.status = 400 /\ rooms' = rooms
             /\ (req.method = "GET" /\ req.header = <<>>)
                    => JustHandled.status = 400 /\ rooms' = rooms
             /\ (req.method = "POST" /\ ~Unacceptable(req))
                    => /\ JustHandled.status = 200
                       /\ Queue(rooms', req.body.pin)
                             = Append(Queue(rooms, req.body.pin), req.signal)
                       /\ \A pin \in (DOMAIN rooms \cup DOMAIN rooms') \ {req.body.pin} :
                              Queue(rooms', pin) = Queue(rooms, pin)]_vars

\* C24 witness: each kind of refused request and an accepted POST have been
\* handled.
C24_Witness ==
    /\ \E i \in DOMAIN http : http[i].req.body = Malformed /\ http[i].status = 400
    /\ \E i \in DOMAIN http : /\ http[i].req.method = "POST"
                                /\ http[i].req.body = Body("{...}", <<>>)
                                /\ http[i].status = 400
    /\ \E i \in DOMAIN http : /\ http[i].req.method = "GET"
                                /\ http[i].req.header = <<>>
                                /\ http[i].status = 400
    /\ \E i \in DOMAIN http : Appended(i)
    /\ Queue(rooms, PinA) /= <<>>

\* ======================================================= claims on sessionCrypto
\* no surrogate without its partner, and no byte order mark in front
WellFormed(str) ==
    /\ \A i \in DOMAIN str :
          /\ IsHigh(str[i]) => (i < Len(str) /\ IsLow(str[i + 1]))
          /\ IsLow(str[i]) => (i > 1 /\ IsHigh(str[i - 1]))
    /\ (str /= <<>> => str[1] /= ByteOrderMark)

\* decrypting with another key, or after a bit of the ciphertext changed,
\* rejects
Guarded ==
    /\ Done(crypt.other) => ~crypt.other.ok
    /\ Done(crypt.bent) => ~crypt.bent.ok

\* the round trip of the messages that are well-formed UTF-16 and do not
\* start with a byte order mark
RoundTripWellFormed ==
    (Done(crypt.same) /\ WellFormed(crypt.m))
        => (crypt.same.ok /\ crypt.same.text = crypt.m)

\* C29: for every key and every message string, the empty one included,
\* decryptWithSession under the same key of what encryptWithSession returned
\* resolves with the message; under another key, or with a changed
\* ciphertext, it rejects.
C29_RoundTrip ==
    /\ Done(crypt.same) => (crypt.same.ok /\ crypt.same.text = crypt.m)
    /\ Guarded

\* ======================================================= claims on the chat socket
\* C30: every promise returned by WebSocketService.connect settles: while
\* one is pending, it will be resolved or rejected.
C30_ConnectSettles ==
    \A i \in Connects : Pending(i) ~> ~Pending(i)

\* C31: the delays of consecutive reconnection attempts double, and there
\* are no more than maxReconnectAttempts of them without a socket opening
\* in between.
C31_BackoffDoubles ==
    /\ \A n \in 2..Len(conn.delays) : conn.delays[n] = 2 * conn.delays[n - 1]
    /\ Len(conn.delays) <= MaxWsReconnects

\* C39: from a call of disconnect() until the application calls connect
\* again, no reconnection is scheduled and no WebSocket is created.
C39_DisconnectStaysOff ==
    [][(conn.off /\ conn'.off) =>
          /\ conn'.retries <= conn.retries
          /\ Len(conn'.socks) = Len(conn.socks)]_vars

\* C35: the two clients of a pairing, each handling the `ready` the relay
\* sent it, never both hold the offerer role with a data channel of their
\* own making: at most one of them creates the channel and offers.
C35_OneOfferer ==
    ~ \A c \in Clients : svc[c].isOfferer /\ svc[c].dataChannel /= None

\* C36: when the signaling socket opens after leave() was called on the
\* connecting client (no PIN is held any more), no join goes out: the relay
\* neither records the socket as a member nor answers it.
C36_NoJoinAfterLeave ==
    [][(wsReady = "CONNECTING" /\ wsReady' = "OPEN" /\ sigPin = NoPin)
         => (socketToPin' = socketToPin /\ pinRooms' = pinRooms /\ inbox' = inbox)]_vars

\* C38: every call of encryptAndStoreMessage that has completed has its
\* record in the stored list of its peerId, whatever other calls for that
\* peerId overlapped it.
C38_NoRecordLost ==
    \A k \in Saves :
        (Called(k) /\ localStorage.calls[k].at = "done")
            => k \in Stored(localStorage.calls[k].peerId)

\* C40: a signal or a leave from a socket that is in no room sends nothing
\* and leaves pinRooms and socketToPin as they were; a signal from a member
\* changes neither map.
C40_OutsiderChangesNothing ==
    [][\A s \in WireSockets :
         /\ (Outside(s) /\ (OrderLeave(s) \/ \E d \in Data : OrderSignal(s, d)))
                => (sent' = <<>> /\ UNCHANGED <<pinRooms, socketToPin>>)
         /\ (\E d \in Data : OrderSignal(s, d))
                => UNCHANGED <<pinRooms, socketToPin>>]_vars

\* C40 witness: the relay has handled a signal and a leave from outside the
\* rooms, and a signal from a member, while a room with an open socket stood.
C40_Witness ==
    /\ trail.idle
    /\ \E k \in DOMAIN trail.got : ~trail.got[k].member
    /\ \E k \in DOMAIN trail.got : trail.got[k].member /\ trail.got[k].mates /= {}
    /\ \E pin \in DOMAIN pinRooms :
          \E i \in DOMAIN pinRooms[pin] : readyState[pinRooms[pin][i]] = "OPEN"

====
